---------------------------- MODULE Spec2Model ----------------------------
(***************************************************************************)
(* A model of the XML explorer / analyzer / extractor toolkit.             *)
(*                                                                         *)
(* Strings are sequences of one-character strings, so that substring       *)
(* tests, concatenation and serialisation are computed rather than         *)
(* assumed.  An XML document is given by its information set: the sequence *)
(* of its nodes in document order, each with the index of its parent.      *)
(* The host's DOMParser turns it into a DOM heap (nodes with parent links, *)
(* ordered child lists and an owner document); the components read and     *)
(* build such heaps exactly as the source does through the DOM API.        *)
(***************************************************************************)
EXTENDS Integers, Sequences, FiniteSets, TLC

VARIABLES
    \* ---- Index state (the page that owns the components)
    xmlString,          \* xmlContent, passed to the components as xmlString
    filename,           \* passed to the extractor as filename
    appSearchTerm,      \* the page's searchTerm
    selectedNode,
    \* ---- XMLExtractor state (XMLExtractor.tsx:48-63)
    searchTerm, extractionType, specificElement, specificAttribute,
    includeParents, keepStructure,
    extractedXML, previewData, previewDialogOpen,
    toast,              \* title of the last toast raised, "none" before any
    edits,              \* number of form edits made so far (bounded by MaxEdits)
    lastCall,           \* the last extractData / generatePreview call and how it ended
    extraction,         \* the locals of the last extractData call and the matchedNodes
                        \* of the last generatePreview call that ran to their end
    \* ---- XMLAnalyzer state (XMLAnalyzer.tsx:36-41)
    elementStats, attributeStats, depthStats,
    maxDepth, totalElements, totalAttributes,
    analyzerPending,    \* the analyzer's effect is scheduled for xmlString
    analyzed,           \* the xmlString of the last completed analysis
    \* ---- XMLTreeView state (part_001:37-40)
    xmlTree, validationError, expandedNodes, matchingNodes,
    treePending,        \* the parse effect is scheduled for xmlString
    searchPending,      \* the search effect is scheduled for searchTerm / xmlTree
    searchLog,          \* the last two handleSearch calls that set the page's
                        \* searchTerm since the document was loaded: their
                        \* arguments, and the matchingNodes the earlier one left
    \* ---- XMLUploader state (XMLUploader.tsx:18-22)
    xmlContent,         \* the uploader's xmlContent
    uploaderFilename,   \* the uploader's filename
    isLoading, showWarning, largeFile,
    readers,            \* the files whose FileReader has not settled yet
    lastRead,           \* the last processFile call: its file, whether the user
                        \* confirmed the warning for it, how the read ended and
                        \* the onXMLLoaded calls it made
    \* ---- formatXML on its own
    formatRuns          \* a text, and what formatXML made of it when applied
                        \* to it and then to its own results

extractorVars ==
    << searchTerm, extractionType, specificElement, specificAttribute,
       includeParents, keepStructure, extractedXML, previewData,
       previewDialogOpen, toast, edits, lastCall, extraction >>

\* the form state of the extractor, the toast left out
extractorFormVars ==
    << searchTerm, extractionType, specificElement, specificAttribute,
       includeParents, keepStructure, extractedXML, previewData,
       previewDialogOpen, edits, lastCall, extraction >>

analyzerVars ==
    << elementStats, attributeStats, depthStats, maxDepth, totalElements,
       totalAttributes, analyzerPending, analyzed >>

indexVars == << xmlString, filename, appSearchTerm, selectedNode >>

treeVars ==
    << xmlTree, validationError, expandedNodes, matchingNodes, treePending,
       searchPending, searchLog >>

uploaderVars ==
    << xmlContent, uploaderFilename, isLoading, showWarning, largeFile,
       readers, lastRead >>

vars == << indexVars, extractorVars, analyzerVars, treeVars, uploaderVars,
          formatRuns >>

-----------------------------------------------------------------------------
(* Bounds of the model *)

\* Greatest number of child subtrees put under a generated document's root.
MaxKids == 2

\* Greatest number of form edits of the extractor in one session.
MaxEdits == 2

-----------------------------------------------------------------------------
(* Strings *)

\* a containment test that ignores the letter case of A and B
Includes_AnyCase(s, t) ==
    LET FoldCase(u) ==
            [i \in 1..Len(u) |->
                CASE u[i] = "A" -> "a" [] u[i] = "B" -> "b" [] OTHER -> u[i]]
    IN \E i \in 1..(Len(s) - Len(t) + 1) :
          FoldCase(SubSeq(s, i, i + Len(t) - 1)) = FoldCase(t)

\* String.prototype.includes: s contains t as a contiguous substring
\* (case-sensitive; the empty string is contained in every string).
Includes(s, t) ==
    \E i \in 1..(Len(s) - Len(t) + 1) : SubSeq(s, i, i + Len(t) - 1) = t

\* the sequence of the values of a function on 1..n
ArrayOf(f) == f \o << >>

RECURSIVE Sum(_)
\* the sum of a sequence of numbers
Sum(ns) == IF ns = << >> THEN 0 ELSE Head(ns) + Sum(Tail(ns))

RECURSIVE Flatten(_)
\* the concatenation of a sequence of strings
Flatten(ss) == IF ss = << >> THEN << >> ELSE Head(ss) \o Flatten(Tail(ss))

\* the set of elements of a sequence
Range(s) == { s[i] : i \in 1..Len(s) }

-----------------------------------------------------------------------------
(* Names and texts that occur in the documents and the queries *)

EmptyString == << >>
N_r   == << "r" >>
N_a   == << "a" >>
N_b   == << "b" >>
N_B   == << "B" >>
N_ab  == << "a", "b" >>
N_x   == << "x" >>
N_bx  == << "b", "x" >>
N_id  == << "i", "d" >>
N_constructor == << "c", "o", "n", "s", "t", "r", "u", "c", "t", "o", "r" >>
N_bookstore == << "b", "o", "o", "k", "s", "t", "o", "r", "e" >>
N_book   == << "b", "o", "o", "k" >>
N_title  == << "t", "i", "t", "l", "e" >>
N_author == << "a", "u", "t", "h", "o", "r" >>
N_results == << "e", "x", "t", "r", "a", "c", "t", "i", "o", "n", "-",
                "r", "e", "s", "u", "l", "t", "s" >>
N_source == << "s", "o", "u", "r", "c", "e" >>
N_extracted == << "e", "x", "t", "r", "a", "c", "t", "e", "d" >>
N_searchterm == << "s", "e", "a", "r", "c", "h", "-", "t", "e", "r", "m" >>

Attr(n, v) == [name |-> n, value |-> v]

-----------------------------------------------------------------------------
(* Documents: the information set behind an xmlString *)

\* Node descriptors.  parent is the index of the parent node in the
\* document's node sequence, 0 for the root element (child of the document).
ElementNode(n, as, p) ==
    [kind |-> "element", name |-> n, attrs |-> as, value |-> << >>, parent |-> p]
TextNode(v, p) ==
    [kind |-> "text", name |-> << >>, attrs |-> << >>, value |-> v, parent |-> p]
CommentNode(v, p) ==
    [kind |-> "comment", name |-> << >>, attrs |-> << >>, value |-> v, parent |-> p]
CDataNode(v, p) ==
    [kind |-> "cdata", name |-> << >>, attrs |-> << >>, value |-> v, parent |-> p]
\* <?target data?>: nodeName is the target, textContent the data
ProcessingInstruction(target, data, p) ==
    [kind |-> "pi", name |-> target, attrs |-> << >>, value |-> data, parent |-> p]

\* the text that the parser puts in the <parsererror> element for <a><b></a>
ParserErrorText ==
    << "T", "h", "i", "s", " ", "p", "a", "g", "e", " ", "c", "o", "n", "t",
       "a", "i", "n", "s", " ", "t", "h", "e", " ", "f", "o", "l", "l", "o",
       "w", "i", "n", "g", " ", "e", "r", "r", "o", "r", "s", ":", "e", "r",
       "r", "o", "r", " ", "o", "n", " ", "l", "i", "n", "e", " ", "1", " ",
       "a", "t", " ", "c", "o", "l", "u", "m", "n", " ", "1", "1", ":", " ",
       "O", "p", "e", "n", "i", "n", "g", " ", "a", "n", "d", " ", "e", "n",
       "d", "i", "n", "g", " ", "t", "a", "g", " ", "m", "i", "s", "m", "a",
       "t", "c", "h", ":", " ", "b", " ", "l", "i", "n", "e", " ", "1", " ",
       "a", "n", "d", " ", "a", "\n", "B", "e", "l", "o", "w", " ", "i",
       "s", " ", "a", " ", "r", "e", "n", "d", "e", "r", "i", "n", "g", " ",
       "o", "f", " ", "t", "h", "e", " ", "p", "a", "g", "e", " ", "u", "p",
       " ", "t", "o", " ", "t", "h", "e", " ", "f", "i", "r", "s", "t", " ",
       "e", "r", "r", "o", "r", "." >>

\* <n>, a start tag with no end tag
StartTag(n, p) ==
    [kind |-> "starttag", name |-> n, attrs |-> << >>, value |-> << >>, parent |-> p]

\* An xmlString that the parser rejects, <a><b></a>: the start tag <b> is
\* not closed when </a> is read.
MalformedXML == << ElementNode(N_a, << >>, 0), StartTag(N_b, 1) >>

\* An xmlString of white space alone, " ": it holds no root element.
BlankText == << TextNode(<< " " >>, 0) >>

\* The empty xmlString ('' is falsy).
NoXML == << >>

\* Subtrees that are put under a root; parent 0 stands for the root.
ItemUpper     == << ElementNode(N_B, << >>, 0) >>
ItemAttrs     == << ElementNode(N_a, << Attr(N_b, N_x), Attr(N_id, N_b) >>, 0) >>
ItemNested    == << ElementNode(N_a, << Attr(N_id, N_x) >>, 0),
                    ElementNode(N_b, << >>, 1),
                    ElementNode(N_ab, << >>, 2),
                    TextNode(N_b, 3),
                    TextNode(N_x, 1) >>
ItemProtoKey  == << ElementNode(N_constructor,
                                << Attr(N_constructor, N_B), Attr(N_id, N_b) >>, 0),
                    CommentNode(N_b, 1),
                    CDataNode(N_B, 1) >>

Items == << ItemUpper, ItemAttrs, ItemNested, ItemProtoKey >>

Roots == { ElementNode(N_r, << >>, 0),
           ElementNode(N_ab, << Attr(N_id, N_b) >>, 0) }

\* item with its parent links moved behind off earlier nodes, under root 1
Shift(item, off) ==
    ArrayOf([i \in 1..Len(item) |->
                [item[i] EXCEPT !.parent = IF @ = 0 THEN 1 ELSE @ + off]])

RECURSIVE Place(_, _)
Place(acc, items) ==
    IF items = << >> THEN acc
    ELSE Place(acc \o Shift(Head(items), Len(acc)), Tail(items))

\* the document <root> item1 item2 ... </root>
MakeDoc(root, items) == Place(<< root >>, items)

\* the choices of up to MaxKids items, repeats included, in the order of Items
ItemChoices ==
    UNION { { f \in [1..k -> 1..Len(Items)] :
                \A i \in 1..k, j \in 1..k : i < j => f[i] <= f[j] } :
            k \in 0..MaxKids }

GeneratedDocs ==
    { MakeDoc(r, ArrayOf([i \in DOMAIN f |-> Items[f[i]]])) : r \in Roots, f \in ItemChoices }

\* The bookstore of the analyzer scenario: ten <book> elements, each with
\* one <title> and one <author>; the leaves hold a text when withText.
BookIndex == 1..10
BookItem(withText) ==
    IF withText
    THEN << ElementNode(N_book, << >>, 0),
            ElementNode(N_title, << >>, 1), TextNode(N_a, 2),
            ElementNode(N_author, << >>, 1), TextNode(N_b, 4) >>
    ELSE << ElementNode(N_book, << >>, 0),
            ElementNode(N_title, << >>, 1),
            ElementNode(N_author, << >>, 1) >>
Bookstore(withText) ==
    MakeDoc(ElementNode(N_bookstore, << >>, 0),
            ArrayOf([i \in BookIndex |-> BookItem(withText)]))

ScenarioDocs == { Bookstore(FALSE), Bookstore(TRUE) }

-----------------------------------------------------------------------------
(* The host's DOM: a heap of nodes *)

\* parentNode of a detached node
NullNode == -1

\* a test that finds no parsererror in any document
parserError_Never(h) == FALSE

\* xmlDoc.querySelector('parsererror')
parserError(h) == \E i \in 1..Len(h) : h[i].kind = "parsererror"

\* node.parentNode && node.parentNode.nodeType === Node.ELEMENT_NODE
ParentIsElement(h, id) ==
    h[id].parent >= 1 /\ h[h[id].parent].kind = "element"

\* a textContent that reads the element's own text children only
textContent_OwnText(h, id) ==
    IF h[id].kind = "element"
    THEN LET kept == SelectSeq(h[id].kids,
                               LAMBDA k : h[k].kind \in { "text", "cdata" })
         IN Flatten(ArrayOf([i \in 1..Len(kept) |-> h[kept[i]].value]))
    ELSE h[id].value

RECURSIVE textContent(_, _)
\* node.textContent: the node's own data for text, CDATA, comments and
\* processing instructions; for an element the texts of its descendants in
\* order, comments and processing instructions left out.
textContent(h, id) ==
    IF h[id].kind = "element"
    THEN LET kept == SelectSeq(h[id].kids,
                               LAMBDA k : h[k].kind \notin { "comment", "pi" })
         IN Flatten(ArrayOf([i \in 1..Len(kept) |-> textContent(h, kept[i])]))
    ELSE h[id].value

\* the element ids of a heap in document order that belong to the parsed
\* document: xmlDoc.getElementsByTagName('*')
AllElements(h) ==
    SelectSeq([i \in 1..Len(h) |-> i], LAMBDA i : h[i].kind = "element")

-----------------------------------------------------------------------------
(* JavaScript values held in the count tables *)

Undefined      == [type |-> "undefined", n |-> 0]
NativeFunction == [type |-> "function", n |-> 0]
Num(k)         == [type |-> "number", n |-> k]
\* the source text of an inherited native function followed by k characters "1"
NativeText(k)  == [type |-> "string", n |-> k]

\* Property names every object literal inherits from Object.prototype, as far
\* as they occur among the names of the documents.
ObjectPrototypeKeys == { N_constructor }

\* An object literal {} used as a table: its own entries in insertion order.
EmptyObject == << >>

OwnIndex(obj, key) ==
    IF \E i \in 1..Len(obj) : obj[i].key = key
    THEN CHOOSE i \in 1..Len(obj) : obj[i].key = key
    ELSE 0

\* obj[key]: the own property, else the inherited one, else undefined
ObjGet(obj, key, inherited) ==
    IF OwnIndex(obj, key) # 0 THEN obj[OwnIndex(obj, key)].value
    ELSE IF key \in inherited THEN NativeFunction
    ELSE Undefined

\* v || 0
OrZero(v) ==
    IF v.type = "undefined" \/ (v.type = "number" /\ v.n = 0) THEN Num(0) ELSE v

\* v + 1: addition on numbers, string concatenation otherwise
PlusOne(v) ==
    CASE v.type = "number"   -> Num(v.n + 1)
      [] v.type = "function" -> NativeText(1)
      [] v.type = "string"   -> NativeText(v.n + 1)

\* obj[key] = v
ObjSet(obj, key, v) ==
    IF OwnIndex(obj, key) # 0
    THEN [obj EXCEPT ![OwnIndex(obj, key)].value = v]
    ELSE Append(obj, [key |-> key, value |-> v])

\* a tally that forgets the count it had: counts[key] = 1
Tally_Overwrite(obj, key, inherited) == ObjSet(obj, key, Num(1))

\* counts[key] = (counts[key] || 0) + 1
Tally(obj, key, inherited) ==
    ObjSet(obj, key, PlusOne(OrZero(ObjGet(obj, key, inherited))))

\* Object.entries(counts).map(([name, count]) => ({ name, count }))
Entries(obj) ==
    ArrayOf([i \in 1..Len(obj) |-> [name |-> obj[i].key, count |-> obj[i].value]])

\* a - b on two count values: NaN unless both are numbers
IsNaNDiff(a, b) == a.type # "number" \/ b.type # "number"
Minus(a, b) == a.n - b.n

-----------------------------------------------------------------------------
(* Numbers as property keys, and Array.prototype.sort *)

Digits == << "0", "1", "2", "3", "4", "5", "6", "7", "8", "9" >>

RECURSIVE NumberToString(_)
\* String(n) for a natural number: its decimal digits
NumberToString(n) ==
    IF n < 10 THEN << Digits[n + 1] >>
    ELSE NumberToString(n \div 10) \o << Digits[(n % 10) + 1] >>

DigitValue(c) == (CHOOSE i \in 1..Len(Digits) : Digits[i] = c) - 1

RECURSIVE parseInt(_)
\* parseInt(s) for a string of decimal digits
parseInt(s) ==
    IF Len(s) = 1 THEN DigitValue(s[1])
    ELSE 10 * parseInt(SubSeq(s, 1, Len(s) - 1)) + DigitValue(s[Len(s)])

-----------------------------------------------------------------------------
(* DOMParser: parseFromString(xmlString, 'text/xml')                       *)

\* s is a document: it starts with its root element, every start tag has its
\* end tag, and all text is inside an element (comments and processing
\* instructions may follow the root element).
WellFormed(s) ==
    /\ s # << >>
    /\ s[1].kind = "element" /\ s[1].parent = 0
    /\ \A i \in 2..Len(s) :
          /\ s[i].kind \in { "element", "text", "comment", "cdata", "pi" }
          /\ s[i].parent \in 0..(i - 1)
          /\ s[i].parent = 0 => s[i].kind \in { "comment", "pi" }
          /\ s[i].parent >= 1 => s[s[i].parent].kind = "element"

\* "This page contains the following errors:"
ErrorsHeading ==
    << "T", "h", "i", "s", " ", "p", "a", "g", "e", " ", "c", "o", "n",
       "t", "a", "i", "n", "s", " ", "t", "h", "e", " ", "f", "o", "l",
       "l", "o", "w", "i", "n", "g", " ", "e", "r", "r", "o", "r", "s",
       ":" >>
\* "Below is a rendering of the page up to the first error."
RenderingNote ==
    << "B", "e", "l", "o", "w", " ", "i", "s", " ", "a", " ", "r", "e",
       "n", "d", "e", "r", "i", "n", "g", " ", "o", "f", " ", "t", "h",
       "e", " ", "p", "a", "g", "e", " ", "u", "p", " ", "t", "o", " ",
       "t", "h", "e", " ", "f", "i", "r", "s", "t", " ", "e", "r", "r",
       "o", "r", "." >>
\* "error on line 1 at column "
ErrorPosition ==
    << "e", "r", "r", "o", "r", " ", "o", "n", " ", "l", "i", "n", "e",
       " ", "1", " ", "a", "t", " ", "c", "o", "l", "u", "m", "n",
       " " >>
\* "Opening and ending tag mismatch: ", " line 1 and "
TagMismatch(open, close) ==
    << "O", "p", "e", "n", "i", "n", "g", " ", "a", "n", "d", " ", "e",
       "n", "d", "i", "n", "g", " ", "t", "a", "g", " ", "m", "i", "s",
       "m", "a", "t", "c", "h", ":", " " >>
    \o open \o
    << " ", "l", "i", "n", "e", " ", "1", " ", "a", "n", "d", " " >>
    \o close
\* "Start tag expected, '<' not found"
NoStartTag ==
    << "S", "t", "a", "r", "t", " ", "t", "a", "g", " ", "e", "x", "p",
       "e", "c", "t", "e", "d", ",", " ", "'", "<", "'", " ", "n", "o",
       "t", " ", "f", "o", "u", "n", "d" >>
\* "Document is empty"
DocumentEmpty ==
    << "D", "o", "c", "u", "m", "e", "n", "t", " ", "i", "s", " ", "e",
       "m", "p", "t", "y" >>

\* the text content of the <parsererror> element: the heading, the line of
\* the error and the note, with no space between
ErrorBlock(column, message) ==
    ErrorsHeading \o ErrorPosition \o NumberToString(column) \o << ":", " " >>
        \o message \o << "\n" >> \o RenderingNote

\* What the parser reports for a text that is no document.  An end tag
\* that closes the parent of an open start tag is a mismatch, reported
\* behind that end tag (the texts of the model hold the open tag as the
\* only child of a root without attributes, all on line 1); a text without
\* a root element is reported at its end, behind the white space.
ParserReport(s) ==
    LET open == SelectSeq(ArrayOf([i \in 1..Len(s) |-> i]),
                          LAMBDA i : s[i].kind = "starttag" /\ s[i].parent >= 1)
    IN IF s = << >> THEN ErrorBlock(1, DocumentEmpty)
       ELSE IF open # << >>
       THEN LET child == s[open[1]]
                parent == s[child.parent]
            IN ErrorBlock(2 * Len(parent.name) + Len(child.name) + 8,
                          TagMismatch(child.name, parent.name))
       ELSE ErrorBlock(1 + Len(Flatten(ArrayOf([i \in 1..Len(s) |-> s[i].value]))),
                       NoStartTag)

\* parser.parseFromString(xmlString, 'text/xml').  Of a document, node i
\* becomes heap node i; parent 0 is the document node itself.  Of any other
\* text the parser returns a document with a <parsererror> element that
\* holds its report (the components read nothing else of that document).
parseFromString(s) ==
    IF WellFormed(s)
    THEN ArrayOf([i \in 1..Len(s) |->
            [kind |-> s[i].kind, name |-> s[i].name, attrs |-> s[i].attrs,
             value |-> s[i].value, parent |-> s[i].parent,
             kids |-> SelectSeq([j \in 1..Len(s) |-> j], LAMBDA j : s[j].parent = i),
             doc |-> "xml"]])
    ELSE << [kind |-> "parsererror", name |-> << >>, attrs |-> << >>,
             value |-> ParserReport(s), parent |-> 0, kids |-> << >>,
             doc |-> "xml"] >>

-----------------------------------------------------------------------------
(* Array.prototype.sort *)

\* (a, b) => b.count - a.count, a NaN result counting as 0
ByCountDescending(a, b) ==
    IF IsNaNDiff(b.count, a.count) THEN 0 ELSE Minus(b.count, a.count)

\* (a, b) => a.level - b.level
ByLevelAscending(a, b) == a.level - b.level

\* the comparator handed to sort: "count" or "level"
Compare(order, a, b) ==
    IF order = "count" THEN ByCountDescending(a, b) ELSE ByLevelAscending(a, b)

\* arr.sort(compare) where the comparator is consistent: the stable sort.
StableSort(arr, order) ==
    LET n == Len(arr)
        Before(j, i) == \/ Compare(order, arr[j], arr[i]) < 0
                        \/ (Compare(order, arr[j], arr[i]) = 0 /\ j < i)
        Pos(i) == 1 + Cardinality({ j \in 1..n : Before(j, i) })
    IN ArrayOf([k \in 1..n |-> arr[CHOOSE i \in 1..n : Pos(i) = k]])

\* ECMAScript's "consistent comparator" over the elements of arr
ConsistentComparator(arr, order) ==
    \A a, b, c \in Range(arr) :
        /\ (Compare(order, a, b) = 0 => Compare(order, b, a) = 0)
        /\ (Compare(order, a, b) = 0 /\ Compare(order, b, c) = 0
               => Compare(order, a, c) = 0)
        /\ (Compare(order, a, b) < 0 /\ Compare(order, b, c) < 0
               => Compare(order, a, c) < 0)
        /\ (Compare(order, a, b) > 0 /\ Compare(order, b, c) > 0
               => Compare(order, a, c) > 0)

Reorderings(arr) ==
    LET n == Len(arr)
    IN { ArrayOf([k \in 1..n |-> arr[p[k]]]) :
            p \in { q \in [1..n -> 1..n] : \A i, j \in 1..n : q[i] = q[j] => i = j } }

\* The arrays arr.sort(compare) may leave: the stable sort for a consistent
\* comparator; otherwise the order is implementation-defined.
SortOutcomes(arr, order) ==
    IF ConsistentComparator(arr, order) THEN { StableSort(arr, order) }
    ELSE Reorderings(arr)

-----------------------------------------------------------------------------
(* XMLAnalyzer *)

\* the accumulators declared before the traversal
NewAnalysis ==
    [elementCounts |-> EmptyObject, attributeCounts |-> EmptyObject,
     depthCounts |-> EmptyObject, maxLevel |-> 0, elemTotal |-> 0, attrTotal |-> 0]

RECURSIVE countAttributes(_, _)
\* Array.from(element.attributes).forEach(attr => ...)
countAttributes(attrs, acc) ==
    IF attrs = << >> THEN acc
    ELSE countAttributes(Tail(attrs),
            [acc EXCEPT !.attributeCounts =
                            Tally(@, Head(attrs).name, ObjectPrototypeKeys),
                        !.attrTotal = @ + 1])

RECURSIVE analyzeNode(_, _, _, _)
RECURSIVE analyzeChildren(_, _, _, _)
\* a traversal that raises maxLevel for elements only
analyzeNode_ElementsOnly(h, id, level, acc) ==
    IF h[id].kind # "element" THEN acc
    ELSE analyzeChildren(h, h[id].kids, level + 1,
            [acc EXCEPT !.maxLevel = IF level > @ THEN level ELSE @,
                        !.elemTotal = @ + 1])

\* analyzeNode(node, level): the accumulators after visiting node id
analyzeNode(h, id, level, acc) ==
    LET seen == [acc EXCEPT !.maxLevel = IF level > @ THEN level ELSE @]
    IN IF h[id].kind # "element" THEN seen
       ELSE LET counted ==
                   [seen EXCEPT
                      !.elementCounts = Tally(@, h[id].name, ObjectPrototypeKeys),
                      !.elemTotal = @ + 1,
                      !.depthCounts =
                          Tally(@, NumberToString(level), ObjectPrototypeKeys)]
            IN analyzeChildren(h, h[id].kids, level + 1,
                               countAttributes(h[id].attrs, counted))

\* Array.from(node.childNodes).forEach(child => analyzeNode(child, level + 1))
\* (the test on visited holds always; it makes the child's visit complete
\* before the next one starts, as forEach does)
analyzeChildren(h, kids, level, acc) ==
    IF kids = << >> THEN acc
    ELSE LET visited == analyzeNode(h, Head(kids), level, acc)
         IN IF visited.maxLevel >= level
            THEN analyzeChildren(h, Tail(kids), level, visited)
            ELSE visited

\* Object.entries(depthCounts).map(([level, count]) => ({ level: parseInt(level), count }))
\* (integer-like keys are enumerated in ascending numeric order)
DepthArray(obj) ==
    LET pairs == ArrayOf([i \in 1..Len(obj) |->
                    [level |-> parseInt(obj[i].key), count |-> obj[i].value]])
    IN StableSort(pairs, "level")

\* The analysis has nothing to do: the prop is empty or does not parse.
\* an effect that returns early for the empty xmlString only
AnalyzerSkips_EmptyOnly == xmlString = NoXML

AnalyzerSkips ==
    xmlString = NoXML \/ parserError(parseFromString(xmlString))

\* The effect of XMLAnalyzer on [xmlString].
AnalyzerEffect ==
    /\ analyzerPending
    /\ analyzerPending' = FALSE
    /\ IF AnalyzerSkips
       THEN UNCHANGED << elementStats, attributeStats, depthStats, maxDepth,
                         totalElements, totalAttributes, analyzed >>
       ELSE LET h == parseFromString(xmlString)
                r == analyzeNode(h, 1, 0, NewAnalysis)
            IN /\ elementStats' \in SortOutcomes(Entries(r.elementCounts), "count")
               /\ attributeStats' \in SortOutcomes(Entries(r.attributeCounts), "count")
               /\ depthStats' = StableSort(DepthArray(r.depthCounts), "level")
               /\ maxDepth' = r.maxLevel
               /\ totalElements' = r.elemTotal
               /\ totalAttributes' = r.attrTotal
               /\ analyzed' = xmlString
    /\ UNCHANGED << formatRuns, uploaderVars, indexVars, extractorVars, treeVars >>

-----------------------------------------------------------------------------
(* Initial component states and the page's load handler *)

\* null, and a value that is present
Null == << >>
Some(v) == << v >>

F_one == << "f", ".", "x", "m", "l" >>
F_two == << "g", ".", "x", "m", "l" >>
Filenames == { F_one, F_two }

NoCall == [op |-> "none", outcome |-> "none"]

NoExtraction ==
    [dom |-> << >>, selected |-> << >>, retained |-> << >>, appended |-> << >>,
     root |-> 0, input |-> NoXML, previewed |-> << >>]

\* XMLExtractor's useState initial values
ExtractorConstructed ==
    /\ searchTerm = EmptyString
    /\ extractionType = "element"
    /\ specificElement = EmptyString
    /\ specificAttribute = EmptyString
    /\ includeParents = TRUE
    /\ keepStructure = TRUE
    /\ extractedXML = Null
    /\ previewData = Null
    /\ previewDialogOpen = FALSE
    /\ toast = "none"
    /\ edits = 0
    /\ lastCall = NoCall
    /\ extraction = NoExtraction

\* XMLAnalyzer's useState initial values; its effect runs once on mount
AnalyzerConstructed ==
    /\ elementStats = << >>
    /\ attributeStats = << >>
    /\ depthStats = << >>
    /\ maxDepth = 0
    /\ totalElements = 0
    /\ totalAttributes = 0
    /\ analyzerPending = TRUE
    /\ analyzed = NoXML

\* XMLSearch's useState initial options
DefaultOptions ==
    [caseSensitive |-> FALSE, wholeWord |-> FALSE, searchIn |-> "all",
     useRegex |-> FALSE]

\* no handleSearch call has set the page's searchTerm yet
NoSearch ==
    [made |-> FALSE, term |-> EmptyString, options |-> DefaultOptions,
     matched |-> { }]
NoSearches == [last |-> NoSearch, prev |-> NoSearch]

\* XMLTreeView's useState initial values; the view is rendered while
\* xmlContent is not empty, and both its effects run once on mount
TreeViewConstructed ==
    /\ xmlTree = Null
    /\ validationError = Null
    /\ expandedNodes = { }
    /\ matchingNodes = { }
    /\ treePending = (xmlString # NoXML)
    /\ searchPending = (xmlString # NoXML)
    /\ searchLog = NoSearches

\* no file, and no processFile call yet
NoFile == [name |-> EmptyString, size |-> 0, content |-> NoXML]
NoRead == [file |-> NoFile, confirmed |-> FALSE, outcome |-> "none", calls |-> << >>]

\* formatXML was applied to nothing
NoRuns == [xml |-> EmptyString, results |-> << >>]
FormatterIdle == formatRuns = NoRuns

\* XMLUploader's useState initial values
UploaderConstructed ==
    /\ xmlContent = NoXML
    /\ uploaderFilename = EmptyString
    /\ isLoading = FALSE
    /\ showWarning = FALSE
    /\ largeFile = Null
    /\ readers = << >>
    /\ lastRead = NoRead

\* The components' state after they are unmounted and constructed again
ExtractorRemounted ==
    /\ searchTerm' = EmptyString
    /\ extractionType' = "element"
    /\ specificElement' = EmptyString
    /\ specificAttribute' = EmptyString
    /\ includeParents' = TRUE
    /\ keepStructure' = TRUE
    /\ extractedXML' = Null
    /\ previewData' = Null
    /\ previewDialogOpen' = FALSE
    /\ edits' = edits
    /\ lastCall' = NoCall
    /\ extraction' = NoExtraction

AnalyzerRemounted ==
    /\ elementStats' = << >>
    /\ attributeStats' = << >>
    /\ depthStats' = << >>
    /\ maxDepth' = 0
    /\ totalElements' = 0
    /\ totalAttributes' = 0
    /\ analyzerPending' = (xmlString' # NoXML)
    /\ analyzed' = NoXML

TreeViewRemounted ==
    /\ xmlTree' = Null
    /\ validationError' = Null
    /\ expandedNodes' = { }
    /\ matchingNodes' = { }
    /\ treePending' = (xmlString' # NoXML)
    /\ searchPending' = (xmlString' # NoXML)
    /\ searchLog' = NoSearches

\* The documents handed to the analyzer
AnalyzerInputs == GeneratedDocs \cup ScenarioDocs \cup { MalformedXML, BlankText, NoXML }

\* a handleXMLLoaded that sets the content and the name only
handleXMLLoaded_KeepsSearch(content, name) ==
    /\ ~analyzerPending
    /\ xmlString' = content
    /\ filename' = name
    /\ UNCHANGED << appSearchTerm, selectedNode >>
    /\ IF content = NoXML \/ xmlString = NoXML
       THEN /\ ExtractorRemounted
            /\ AnalyzerRemounted
            /\ TreeViewRemounted
       ELSE /\ analyzerPending' = (content # xmlString)
            /\ UNCHANGED << elementStats, attributeStats, depthStats, maxDepth,
                            totalElements, totalAttributes, analyzed >>
            /\ UNCHANGED extractorFormVars
            /\ treePending' = (treePending \/ content # xmlString)
            /\ searchLog' = NoSearches
            /\ UNCHANGED << xmlTree, validationError, expandedNodes, matchingNodes,
                            searchPending >>

\* handleXMLLoaded(content, name), followed by the re-render of the page:
\* the components are unmounted while xmlContent is empty, and constructed
\* anew when it is set again.
handleXMLLoaded(content, name) ==
    /\ ~analyzerPending
    /\ xmlString' = content
    /\ filename' = name
    /\ appSearchTerm' = EmptyString
    /\ selectedNode' = EmptyString
    /\ IF content = NoXML \/ xmlString = NoXML
       THEN /\ ExtractorRemounted
            /\ AnalyzerRemounted
            /\ TreeViewRemounted
       ELSE /\ analyzerPending' = (content # xmlString)
            /\ UNCHANGED << elementStats, attributeStats, depthStats, maxDepth,
                            totalElements, totalAttributes, analyzed >>
            /\ UNCHANGED extractorFormVars
            /\ treePending' = (treePending \/ content # xmlString)
            /\ searchPending' = (searchPending \/ appSearchTerm # EmptyString)
            /\ searchLog' = NoSearches
            /\ UNCHANGED << xmlTree, validationError, expandedNodes, matchingNodes >>

\* The uploader hands a document to the page; its own state is set aside
LoadXML(content, name) ==
    /\ handleXMLLoaded(content, name)
    /\ UNCHANGED << uploaderVars, formatRuns, toast >>

-----------------------------------------------------------------------------
(* The analyzer on its own: documents are loaded and analysed *)

AnalyzerInit ==
    /\ xmlString \in AnalyzerInputs
    /\ filename \in Filenames
    /\ appSearchTerm = EmptyString
    /\ selectedNode = EmptyString
    /\ ExtractorConstructed
    /\ AnalyzerConstructed
    /\ TreeViewConstructed
    /\ UploaderConstructed
    /\ FormatterIdle

\* The documents loaded over an earlier one
ReloadInputs ==
    ScenarioDocs \cup { MalformedXML, BlankText, NoXML }
        \cup { MakeDoc(r, << >>) : r \in Roots }

AnalyzerNext ==
    \/ AnalyzerEffect
    \/ \E content \in ReloadInputs, name \in Filenames : LoadXML(content, name)

SpecAnalyzer == AnalyzerInit /\ [][AnalyzerNext]_vars

-----------------------------------------------------------------------------
(* Claims about the analyzer *)

RECURSIVE Depth(_, _)
\* the depth of node i of a document, the root element being at depth 0
Depth(doc, i) == IF doc[i].parent = 0 THEN 0 ELSE 1 + Depth(doc, doc[i].parent)

ElementsOf(doc) == { i \in 1..Len(doc) : doc[i].kind = "element" }

\* the sum of all values of a count table, as a JavaScript value
SumOfValues(stats) ==
    IF \A i \in 1..Len(stats) : stats[i].count.type = "number"
    THEN Num(Sum(ArrayOf([i \in 1..Len(stats) |-> stats[i].count.n])))
    ELSE NativeText(0)

\* table[name], undefined when the table has no such entry
CountOf(stats, name) ==
    IF \E i \in 1..Len(stats) : stats[i].name = name
    THEN stats[CHOOSE i \in 1..Len(stats) : stats[i].name = name].count
    ELSE Undefined

AnalysisDone == analyzed # NoXML /\ ~analyzerPending /\ analyzed = xmlString

\* C1: after the traversal of a well-formed document totalElements is the
\* sum of the values of elementCounts, totalAttributes the sum of the values
\* of attributeCounts, and every depthCounts[d] is at most the number of
\* elements at or below depth d (whether "below" is read as no deeper or as
\* no shallower than d).
C1_StatisticsConsistent ==
    AnalysisDone =>
        /\ SumOfValues(elementStats) = Num(totalElements)
        /\ SumOfValues(attributeStats) = Num(totalAttributes)
        /\ \A i \in 1..Len(depthStats) :
              /\ depthStats[i].count.type = "number"
              /\ depthStats[i].count.n <=
                    Cardinality({ e \in ElementsOf(analyzed) :
                                    Depth(analyzed, e) <= depthStats[i].level })
              /\ depthStats[i].count.n <=
                    Cardinality({ e \in ElementsOf(analyzed) :
                                    Depth(analyzed, e) >= depthStats[i].level })

\* The same statement for the documents none of whose names is inherited
\* by an object literal.
NoInheritedNames(doc) ==
    \A i \in 1..Len(doc) :
        /\ doc[i].name \notin ObjectPrototypeKeys
        /\ \A j \in 1..Len(doc[i].attrs) : doc[i].attrs[j].name \notin ObjectPrototypeKeys

C1_ConsistentForPlainNames ==
    NoInheritedNames(analyzed) => C1_StatisticsConsistent

\* C2 as stated: the bookstore of ten books, each with one title and one
\* author, gives elementCounts["book"] = 10, elementCounts["title"] = 10,
\* totalElements = 30 and maxDepth = 2.
C2_BookstoreAsStated ==
    (AnalysisDone /\ analyzed \in ScenarioDocs) =>
        /\ CountOf(elementStats, N_book) = Num(10)
        /\ CountOf(elementStats, N_title) = Num(10)
        /\ totalElements = 30
        /\ maxDepth = 2

\* C2 amended: the bookstore gives elementCounts["book"] = 10,
\* elementCounts["title"] = 10 and totalElements = 31 (the thirty elements
\* below the root and the root); maxDepth is 2 when the titles and authors
\* are empty and 3 when they hold a text.
C2_Bookstore ==
    (AnalysisDone /\ analyzed \in ScenarioDocs) =>
        /\ CountOf(elementStats, N_book) = Num(10)
        /\ CountOf(elementStats, N_title) = Num(10)
        /\ totalElements = 31
        /\ maxDepth = (IF analyzed = Bookstore(TRUE) THEN 3 ELSE 2)

C2_Witness ==
    /\ AnalysisDone
    /\ analyzed = Bookstore(FALSE)
    /\ CountOf(elementStats, N_author) = Num(10)

\* the names of a count table
NamesOf(stats) == { stats[i].name : i \in 1..Len(stats) }

\* C20: maxDepth is the greatest depth (root element 0) of any node of the
\* document, the text, comment and CDATA children of elements included, so
\* an element at depth d with any child gives maxDepth >= d + 1; only
\* elements are tallied: totalElements counts the elements, elementCounts
\* has the element names and no other, depthCounts has for every depth the
\* number of elements there (no entry where there is none), and
\* attributeCounts has the attribute names.
C20_MaxDepth ==
    AnalysisDone =>
        LET doc == analyzed
            Nodes == 1..Len(doc)
        IN /\ \E i \in Nodes : Depth(doc, i) = maxDepth
           /\ \A i \in Nodes : Depth(doc, i) <= maxDepth
           /\ \A e \in ElementsOf(doc) :
                 (\E j \in Nodes : doc[j].parent = e) => maxDepth >= Depth(doc, e) + 1
           /\ totalElements = Cardinality(ElementsOf(doc))
           /\ NamesOf(elementStats) = { doc[e].name : e \in ElementsOf(doc) }
           /\ NamesOf(attributeStats) =
                 UNION { { doc[e].attrs[k].name : k \in 1..Len(doc[e].attrs) } :
                         e \in ElementsOf(doc) }
           /\ \A d \in 0..maxDepth :
                 LET there == Cardinality({ e \in ElementsOf(doc) : Depth(doc, e) = d })
                     rows == { i \in 1..Len(depthStats) : depthStats[i].level = d }
                 IN IF there = 0 THEN rows = { }
                    ELSE /\ Cardinality(rows) = 1
                         /\ \A i \in rows : depthStats[i].count = Num(there)
           /\ \A i \in 1..Len(depthStats) : depthStats[i].level \in 0..maxDepth

\* a document whose deepest node is not an element: maxDepth exceeds the
\* depth of every element
C20_Witness ==
    /\ AnalysisDone
    /\ \A e \in ElementsOf(analyzed) : Depth(analyzed, e) < maxDepth
    /\ \E i \in 1..Len(analyzed) :
          analyzed[i].kind = "comment" /\ Depth(analyzed, i) = maxDepth
    /\ \E i \in 1..Len(analyzed) :
          analyzed[i].kind = "cdata" /\ Depth(analyzed, i) = maxDepth

-----------------------------------------------------------------------------
(* DOM operations used by the extractor.  Each takes the heap and returns *)
(* the heap it leaves; a node made by an operation gets the next free id.  *)

\* the id the next created node gets
NextId(h) == Len(h) + 1

\* doc.createElement(name): a detached element without attributes
createElement(h, doc, name) ==
    Append(h, [kind |-> "element", name |-> name, attrs |-> << >>,
               value |-> << >>, parent |-> NullNode, kids |-> << >>, doc |-> doc])

\* element.setAttribute(name, value): replaces the value of an attribute the
\* element has, appends the attribute otherwise
setAttribute(h, id, name, value) ==
    IF \E i \in 1..Len(h[id].attrs) : h[id].attrs[i].name = name
    THEN [h EXCEPT ![id].attrs =
            ArrayOf([i \in 1..Len(@) |->
                       IF @[i].name = name THEN Attr(name, value) ELSE @[i]])]
    ELSE [h EXCEPT ![id].attrs = Append(@, Attr(name, value))]

RECURSIVE InSubtree(_, _, _)
\* node n is top or lies below it
InSubtree(h, n, top) ==
    n = top \/ (h[n].parent >= 1 /\ InSubtree(h, h[n].parent, top))

\* parent.appendChild(child): child leaves the place it had, becomes the
\* last child of parent, and its subtree is adopted by parent's document
appendChild(h, parent, child) ==
    LET old == h[child].parent
        removed == IF old >= 1
                   THEN [h EXCEPT ![old].kids = SelectSeq(@, LAMBDA k : k # child)]
                   ELSE h
        linked == [removed EXCEPT ![child].parent = parent,
                                  ![parent].kids = Append(@, child)]
    IN ArrayOf([n \in 1..Len(linked) |->
                  IF InSubtree(linked, n, child)
                  THEN [linked[n] EXCEPT !.doc = linked[parent].doc]
                  ELSE linked[n]])

\* a copy of node id that keeps the children of the node it is made from
copySubtree_Shared(h, id, deep, doc) ==
    Append(h, [h[id] EXCEPT !.parent = NullNode, !.doc = doc])

RECURSIVE copySubtree(_, _, _, _)
RECURSIVE copyKids(_, _, _, _)
\* a detached copy of node id, owned by doc, with copies of its descendants
\* when deep; the copy gets the id NextId(h)
copySubtree(h, id, deep, doc) ==
    LET made == Append(h, [h[id] EXCEPT !.parent = NullNode, !.kids = << >>,
                                        !.doc = doc])
    IN IF deep THEN copyKids(made, h[id].kids, NextId(h), doc) ELSE made

copyKids(h, kids, into, doc) ==
    IF kids = << >> THEN h
    ELSE LET c == NextId(h)
             copied == copySubtree(h, Head(kids), TRUE, doc)
             linked == [copied EXCEPT ![c].parent = into,
                                      ![into].kids = Append(@, c)]
         IN IF Len(linked) >= c THEN copyKids(linked, Tail(kids), into, doc)
            ELSE linked

\* node.cloneNode(deep): the copy stays in the node's own document
cloneNode(h, id, deep) == copySubtree(h, id, deep, h[id].doc)

\* resultDoc.importNode(node, true): the copy belongs to the result document
importNode(h, id, deep) == copySubtree(h, id, deep, "result")

\* document.implementation.createDocument(null, 'extraction-results', null):
\* the new document's root element, child of the result document
createDocument(h, name) ==
    Append(h, [kind |-> "element", name |-> name, attrs |-> << >>,
               value |-> << >>, parent |-> 0, kids |-> << >>, doc |-> "result"])

RECURSIVE InDocument(_, _)
\* the node is attached to its document (its chain of parents ends there)
InDocument(h, id) ==
    h[id].parent = 0 \/ (h[id].parent >= 1 /\ InDocument(h, h[id].parent))

\* xmlDoc.getElementsByTagName(name): the elements of the parsed document
\* with that tag name, every element for '*', in document order
getElementsByTagName(h, name) ==
    SelectSeq(AllElements(h),
              LAMBDA i : /\ h[i].doc = "xml"
                         /\ InDocument(h, i)
                         /\ (name = << "*" >> \/ h[i].name = name))

\* element.hasAttribute(name)
hasAttribute(h, id, name) ==
    \E i \in 1..Len(h[id].attrs) : h[id].attrs[i].name = name

\* element.getAttribute(name) of an attribute the element has
getAttribute(h, id, name) ==
    h[id].attrs[CHOOSE i \in 1..Len(h[id].attrs) : h[id].attrs[i].name = name].value

-----------------------------------------------------------------------------
(* XMLExtractor: the selection phase *)

\* a leaf test that lets every element pass
hasOnlyTextContent_Always(h, e) == TRUE

\* the loop over element.childNodes that looks for an element child
hasOnlyTextContent(h, e) ==
    \A j \in 1..Len(h[e].kids) : h[h[e].kids[j]].kind # "element"

\* an attribute test that looks at the names only
attributeMatches_NamesOnly(h, e, term, sa) ==
    IF sa # EmptyString
    THEN hasAttribute(h, e, sa)
    ELSE \E j \in 1..Len(h[e].attrs) : Includes(h[e].attrs[j].name, term)

\* the test of one element in the 'attribute' branch
attributeMatches(h, e, term, sa) ==
    IF sa # EmptyString
    THEN /\ hasAttribute(h, e, sa)
         /\ getAttribute(h, e, sa) # EmptyString
         /\ Includes(getAttribute(h, e, sa), term)
    ELSE \E j \in 1..Len(h[e].attrs) :
            \/ Includes(h[e].attrs[j].name, term)
            \/ Includes(h[e].attrs[j].value, term)

\* matchedNodes as extractData fills it
extractSelection(h, type, term, se, sa) ==
    CASE type = "element" ->
            SelectSeq(getElementsByTagName(h, IF se # EmptyString THEN se ELSE << "*" >>),
                      LAMBDA e : \/ Includes(h[e].name, term)
                                 \/ Includes(textContent(h, e), term))
      [] type = "attribute" ->
            SelectSeq(getElementsByTagName(h, << "*" >>),
                      LAMBDA e : attributeMatches(h, e, term, sa))
      [] type = "content" ->
            SelectSeq(getElementsByTagName(h, << "*" >>),
                      LAMBDA e : /\ hasOnlyTextContent(h, e)
                                 /\ textContent(h, e) # EmptyString
                                 /\ Includes(textContent(h, e), term))
      [] OTHER -> << >>

\* matchedNodes as generatePreview fills it
previewSelection(h, type, term, se, sa) ==
    CASE type = "element" ->
            SelectSeq(getElementsByTagName(h, IF se # EmptyString THEN se ELSE << "*" >>),
                      LAMBDA e : \/ Includes(h[e].name, term)
                                 \/ Includes(textContent(h, e), term))
      [] type = "attribute" ->
            SelectSeq(getElementsByTagName(h, << "*" >>),
                      LAMBDA e :
                         IF sa # EmptyString
                         THEN /\ hasAttribute(h, e, sa)
                              /\ getAttribute(h, e, sa) # EmptyString
                              /\ Includes(getAttribute(h, e, sa), term)
                         ELSE \E j \in 1..Len(h[e].attrs) :
                                 \/ Includes(h[e].attrs[j].name, term)
                                 \/ Includes(h[e].attrs[j].value, term))
      [] type = "content" ->
            SelectSeq(getElementsByTagName(h, << "*" >>),
                      LAMBDA e : /\ \A j \in 1..Len(h[e].kids) :
                                        h[h[e].kids[j]].kind # "element"
                                 /\ textContent(h, e) # EmptyString
                                 /\ Includes(textContent(h, e), term))
      [] OTHER -> << >>

-----------------------------------------------------------------------------
(* XMLExtractor: ancestor reconstruction and assembly *)

\* a path that tells every node from every other
pathOf_PerNode(h, id) == << "/" >> \o NumberToString(id)

RECURSIVE pathOf(_, _)
\* the loop that builds `/${nodeName}` from the node up to the document
pathOf(h, id) ==
    IF id < 1 THEN EmptyString
    ELSE pathOf(h, h[id].parent) \o << "/" >> \o h[id].name

RECURSIVE copyAttributes(_, _, _)
\* Array.from(node.attributes).forEach(attr => newElement.setAttribute(...))
copyAttributes(h, to, attrs) ==
    IF attrs = << >> THEN h
    ELSE copyAttributes(setAttribute(h, to, Head(attrs).name, Head(attrs).value),
                        to, Tail(attrs))

RECURSIVE cloneParentStructure(_, _, _)
\* cloneParentStructure(node, doc): the heap it leaves and the element it
\* returns (NullNode for null)
cloneParentStructure(h, node, doc) ==
    IF node < 1 \/ h[node].kind # "element" THEN [heap |-> h, el |-> NullNode]
    ELSE LET newElement == NextId(h)
             made == copyAttributes(createElement(h, doc, h[node].name),
                                    newElement, h[node].attrs)
         IN IF ParentIsElement(made, node)
            THEN LET up == cloneParentStructure(made, made[node].parent, doc)
                 IN IF up.el # NullNode
                    THEN [heap |-> appendChild(up.heap, up.el, newElement),
                          el |-> up.el]
                    ELSE [heap |-> up.heap, el |-> newElement]
            ELSE [heap |-> made, el |-> newElement]

\* cloneWithParents(node): the heap it leaves and the element it returns
cloneWithParents(h, node) ==
    LET clone == NextId(h)
        cloned == cloneNode(h, node, TRUE)
    IN IF ParentIsElement(cloned, node)
       THEN LET parentClone == NextId(cloned)
                shallow == cloneNode(cloned, cloned[node].parent, FALSE)
            IN [heap |-> appendChild(shallow, parentClone, clone), el |-> parentClone]
       ELSE [heap |-> cloned, el |-> clone]

RECURSIVE keepFirstOfEachPath(_, _, _, _, _)
\* the forEach of the includeParents && keepStructure branch: the heap it
\* leaves, newMatchedNodes, and the matched nodes whose path was new
keepFirstOfEachPath(h, nodes, processedPaths, newMatchedNodes, kept) ==
    IF nodes = << >>
    THEN [heap |-> h, nodes |-> newMatchedNodes, retained |-> kept]
    ELSE LET node == Head(nodes)
             path == pathOf(h, node)
         IN IF path \in processedPaths
            THEN keepFirstOfEachPath(h, Tail(nodes), processedPaths,
                                     newMatchedNodes, kept)
            ELSE IF ParentIsElement(h, node)
            THEN LET up == cloneParentStructure(h, h[node].parent, "result")
                 IN keepFirstOfEachPath(up.heap, Tail(nodes),
                        processedPaths \cup { path },
                        Append(newMatchedNodes,
                               IF up.el # NullNode THEN up.el ELSE node),
                        Append(kept, node))
            ELSE keepFirstOfEachPath(h, Tail(nodes), processedPaths \cup { path },
                                     Append(newMatchedNodes, node),
                                     Append(kept, node))

RECURSIVE appendResults(_, _, _, _, _)
\* the forEach that imports every node and appends it to rootNode: the heap
\* it leaves and the appended nodes
appendResults(h, nodes, rootNode, withParents, done) ==
    IF nodes = << >> THEN [heap |-> h, appended |-> done]
    ELSE LET given == IF withParents THEN cloneWithParents(h, Head(nodes))
                      ELSE [heap |-> h, el |-> Head(nodes)]
             importedNode == NextId(given.heap)
             imported == importNode(given.heap, given.el, TRUE)
             linked == appendChild(imported, rootNode, importedNode)
         IN IF Len(linked) >= importedNode
            THEN appendResults(linked, Tail(nodes), rootNode, withParents,
                               Append(done, importedNode))
            ELSE [heap |-> linked, appended |-> done]

-----------------------------------------------------------------------------
(* Serialisation and formatting *)

RECURSIVE serializeAttributes(_)
serializeAttributes(attrs) ==
    IF attrs = << >> THEN EmptyString
    ELSE << " " >> \o Head(attrs).name \o << "=", "\"" >> \o Head(attrs).value
         \o << "\"" >> \o serializeAttributes(Tail(attrs))

RECURSIVE serializeToString(_, _)
\* new XMLSerializer().serializeToString(node), for names and texts without
\* markup characters: an element without children is written <name/>
serializeToString(h, id) ==
    CASE h[id].kind = "element" ->
            IF h[id].kids = << >>
            THEN << "<" >> \o h[id].name \o serializeAttributes(h[id].attrs)
                 \o << "/", ">" >>
            ELSE << "<" >> \o h[id].name \o serializeAttributes(h[id].attrs)
                 \o << ">" >>
                 \o Flatten(ArrayOf([i \in 1..Len(h[id].kids) |->
                                        serializeToString(h, h[id].kids[i])]))
                 \o << "<", "/" >> \o h[id].name \o << ">" >>
      [] h[id].kind = "comment" ->
            << "<", "!", "-", "-" >> \o h[id].value \o << "-", "-", ">" >>
      [] h[id].kind = "cdata" ->
            << "<", "!", "[", "C", "D", "A", "T", "A", "[" >> \o h[id].value
            \o << "]", "]", ">" >>
      [] h[id].kind = "pi" ->
            << "<", "?" >> \o h[id].name \o << " " >> \o h[id].value
            \o << "?", ">" >>
      [] OTHER -> h[id].value

\* \w
WordChars ==
    { "a", "b", "c", "d", "e", "f", "g", "h", "i", "j", "k", "l", "m", "n", "o",
      "p", "q", "r", "s", "t", "u", "v", "w", "x", "y", "z",
      "A", "B", "C", "D", "E", "F", "G", "H", "I", "J", "K", "L", "M", "N", "O",
      "P", "Q", "R", "S", "T", "U", "V", "W", "X", "Y", "Z",
      "0", "1", "2", "3", "4", "5", "6", "7", "8", "9", "_" }

\* \s, and the characters that trim() removes: space, tab, line feed,
\* carriage return, form feed, vertical tab (U+000B), U+00A0, U+1680,
\* U+2000 to U+200A, U+2028, U+2029, U+202F, U+205F, U+3000 and U+FEFF.
\* U+2000 to U+3000 are written by their escapes.
SpaceChars ==
    { " ", "\t", "\n", "\r", "\f", "", " ", " ",
      "\\u2000", "\\u2001", "\\u2002", "\\u2003", "\\u2004", "\\u2005", "\\u2006", "\\u2007",
      "\\u2008", "\\u2009", "\\u200A", "\\u2028", "\\u2029", "\\u202F", "\\u205F", "\\u3000",
      "﻿" }

RECURSIVE SkipSpaces(_, _)
\* the first position at or after j that holds no \s
SkipSpaces(xml, j) ==
    IF j <= Len(xml) /\ xml[j] \in SpaceChars THEN SkipSpaces(xml, j + 1) ELSE j

RECURSIVE FirstBoundary(_, _)
\* the first position at or after from where />\s*</ matches, as the pair
\* of the positions of its '>' and its '<'; << 0, 0 >> when there is none
FirstBoundary(xml, from) ==
    IF from > Len(xml) THEN << 0, 0 >>
    ELSE IF xml[from] = ">"
    THEN LET j == SkipSpaces(xml, from + 1)
         IN IF j <= Len(xml) /\ xml[j] = "<" THEN << from, j >>
            ELSE FirstBoundary(xml, from + 1)
    ELSE FirstBoundary(xml, from + 1)

RECURSIVE SplitAtBoundaries(_, _)
\* xml.split(/>\s*</), read from position from on
SplitAtBoundaries(xml, from) ==
    LET b == FirstBoundary(xml, from)
    IN IF b[1] = 0 THEN << SubSeq(xml, from, Len(xml)) >>
       ELSE << SubSeq(xml, from, b[1] - 1) >> \o SplitAtBoundaries(xml, b[2] + 1)

\* node.match(/^\/\w/)
IsClosingTag(node) ==
    Len(node) >= 2 /\ node[1] = "/" /\ node[2] \in WordChars

\* the position of the \w that /^<?\w/ matches, 0 when it does not match
WordStart(node) ==
    IF Len(node) >= 1 /\ node[1] \in WordChars THEN 1
    ELSE IF Len(node) >= 2 /\ node[1] = "<" /\ node[2] \in WordChars THEN 2
    ELSE 0

\* node.match(/^<?\w[^>]*[^\/]$/)
IsOpeningTag(node) ==
    LET w == WordStart(node)
    IN /\ w # 0
       /\ Len(node) >= w + 1
       /\ \A k \in (w + 1)..(Len(node) - 1) : node[k] # ">"
       /\ node[Len(node)] # "/"

\* node.match(/^<?\w[^>]*\/>/)
IsSelfClosed(node) ==
    LET w == WordStart(node)
    IN /\ w # 0
       /\ \E p \in (w + 1)..(Len(node) - 1) :
             /\ node[p] = "/" /\ node[p + 1] = ">"
             /\ \A k \in (w + 1)..(p - 1) : node[k] # ">"

RECURSIVE formatNodes(_, _, _)
\* the forEach of formatXML: formatted after the fragments, from the
\* formatted text and the indent before them
formatNodes(nodes, formatted, indent) ==
    IF nodes = << >> THEN formatted
    ELSE LET node == Head(nodes)
             tab == << " ", " " >>
             dedented == IF IsClosingTag(node)
                         THEN SubSeq(indent, Len(tab) + 1, Len(indent))
                         ELSE indent
             emitted == formatted \o dedented \o << "<" >> \o node \o << ">", "\n" >>
             indented == IF IsOpeningTag(node) /\ ~IsSelfClosed(node)
                         THEN dedented \o tab
                         ELSE dedented
         IN formatNodes(Tail(nodes), emitted, indented)

\* a formatXML that keeps the '<' it put first and the '>' and the line
\* break it put last
formatXML_Untrimmed(xml) ==
    formatNodes(SplitAtBoundaries(xml, 1), EmptyString, EmptyString)

\* formatXML(xml)
formatXML(xml) ==
    LET formatted == formatNodes(SplitAtBoundaries(xml, 1), EmptyString, EmptyString)
    IN SubSeq(formatted, 2, Len(formatted) - 2)

\* new Date().toISOString() for a clock within the first second of the epoch
toISOString(ms) ==
    << "1", "9", "7", "0", "-", "0", "1", "-", "0", "1", "T",
       "0", "0", ":", "0", "0", ":", "0", "0", ".",
       Digits[(ms \div 100) + 1], Digits[((ms \div 10) % 10) + 1],
       Digits[(ms % 10) + 1], "Z" >>

\* the readings of the clock
ClockReadings == { 7, 42 }

-----------------------------------------------------------------------------
(* XMLExtractor: the handlers.  generatePreview and extractData are       *)
(* modelled as the component defines them, callable in every state of the  *)
(* component; the buttons that the rendered form binds them to are         *)
(* disabled while the document or the search term is missing.              *)

\* matchedNodes.slice(0, 5)
SampleLimit == 5

\* arr.slice(0, end)
Slice(arr, end) == SubSeq(arr, 1, IF Len(arr) < end THEN Len(arr) ELSE end)

\* a guard that looks at the document only
MissingInput_DocOnly == xmlString = NoXML

\* !inputXmlString || !searchTerm
MissingInput == xmlString = NoXML \/ searchTerm = EmptyString

RECURSIVE tallyNames(_, _)
\* one pass of counts[name] = (counts[name] || 0) + 1 over a list of names
tallyNames(names, counts) ==
    IF names = << >> THEN counts
    ELSE tallyNames(Tail(names), Tally(counts, Head(names), ObjectPrototypeKeys))

\* the stats generatePreview collects over matchedNodes
previewStats(h, matchedNodes) ==
    [elementCounts |->
        tallyNames(ArrayOf([i \in 1..Len(matchedNodes) |-> h[matchedNodes[i]].name]),
                   EmptyObject),
     attributeCounts |->
        tallyNames(Flatten(ArrayOf([i \in 1..Len(matchedNodes) |->
                              ArrayOf([j \in 1..Len(h[matchedNodes[i]].attrs) |->
                                          h[matchedNodes[i]].attrs[j].name])])),
                   EmptyObject)]

\* generatePreview()
generatePreview ==
    /\ IF MissingInput
       THEN /\ toast' = "Preview Failed"
            /\ lastCall' = [op |-> "preview", outcome |-> "missing"]
            /\ UNCHANGED << previewData, previewDialogOpen, extraction >>
       ELSE LET xmlDoc == parseFromString(xmlString)
            IN IF parserError(xmlDoc)
               THEN /\ toast' = "Preview Failed"
                    /\ lastCall' = [op |-> "preview", outcome |-> "error"]
                    /\ UNCHANGED << previewData, previewDialogOpen, extraction >>
               ELSE LET matchedNodes ==
                           previewSelection(xmlDoc, extractionType, searchTerm,
                                            specificElement, specificAttribute)
                    IN /\ previewData' =
                             Some([matchCount |-> Len(matchedNodes),
                                   samples |-> Slice(matchedNodes, SampleLimit),
                                   stats |-> previewStats(xmlDoc, matchedNodes)])
                       /\ previewDialogOpen' = TRUE
                       /\ toast' = "Preview Generated"
                       /\ lastCall' = [op |-> "preview", outcome |-> "ok"]
                       /\ extraction' = [extraction EXCEPT !.previewed = matchedNodes]
    /\ UNCHANGED << formatRuns, uploaderVars, indexVars, analyzerVars, treeVars, searchTerm, extractionType,
                    specificElement, specificAttribute, includeParents,
                    keepStructure, extractedXML, edits >>

\* what extractData builds once its inputs are there and parse, at clock
\* reading now
extractResult(now) ==
    LET xmlDoc == parseFromString(xmlString)
        rootNode == NextId(xmlDoc)
        resultDoc ==
            setAttribute(
              setAttribute(
                setAttribute(createDocument(xmlDoc, N_results),
                             rootNode, N_source, filename),
                rootNode, N_extracted, toISOString(now)),
              rootNode, N_searchterm, searchTerm)
        matchedNodes == extractSelection(resultDoc, extractionType, searchTerm,
                                         specificElement, specificAttribute)
        structured ==
            IF includeParents /\ keepStructure
            THEN keepFirstOfEachPath(resultDoc, matchedNodes, { }, << >>, << >>)
            ELSE [heap |-> resultDoc, nodes |-> matchedNodes, retained |-> matchedNodes]
        finalNodes == IF Len(structured.nodes) > 0 THEN structured.nodes
                      ELSE matchedNodes
        built == appendResults(structured.heap, finalNodes, rootNode,
                               includeParents, << >>)
    IN [dom |-> built.heap, selected |-> matchedNodes,
        retained |-> structured.retained, appended |-> built.appended,
        root |-> rootNode, input |-> xmlString,
        previewed |-> extraction.previewed]

\* extractData()
extractData ==
    /\ IF MissingInput
       THEN /\ toast' = "Extraction Failed"
            /\ lastCall' = [op |-> "extract", outcome |-> "missing"]
            /\ UNCHANGED << extractedXML, extraction >>
       ELSE IF parserError(parseFromString(xmlString))
       THEN /\ toast' = "Extraction Failed"
            /\ lastCall' = [op |-> "extract", outcome |-> "error"]
            /\ UNCHANGED << extractedXML, extraction >>
       ELSE \E now \in ClockReadings :
               LET r == extractResult(now)
               IN /\ extractedXML' = Some(formatXML(serializeToString(r.dom, r.root)))
                  /\ extraction' = r
                  /\ toast' = "Extraction Complete"
                  /\ lastCall' = [op |-> "extract", outcome |-> "ok"]
    /\ UNCHANGED << formatRuns, uploaderVars, indexVars, analyzerVars, treeVars, searchTerm, extractionType,
                    specificElement, specificAttribute, includeParents,
                    keepStructure, previewData, previewDialogOpen, edits >>

\* the dialog's onOpenChange and its Close button
ClosePreviewDialog ==
    /\ previewDialogOpen
    /\ previewDialogOpen' = FALSE
    /\ UNCHANGED << formatRuns, uploaderVars, indexVars, analyzerVars, treeVars, searchTerm, extractionType,
                    specificElement, specificAttribute, includeParents,
                    keepStructure, extractedXML, previewData, toast, edits,
                    lastCall, extraction >>

\* downloadExtractedXML(), from the Download button, which is rendered
\* while extractedXML holds a text; the file goes to the browser
downloadExtractedXML ==
    /\ extractedXML # Null /\ extractedXML # Some(EmptyString)
    /\ toast' = "Download Started"
    /\ UNCHANGED << formatRuns, uploaderVars, indexVars, analyzerVars, treeVars,
                    searchTerm, extractionType, specificElement,
                    specificAttribute, includeParents, keepStructure,
                    extractedXML, previewData, previewDialogOpen, edits,
                    lastCall, extraction >>

\* The values typed or chosen in the form
Terms == { EmptyString, N_b, N_bx }
ExtractionTypes == { "element", "attribute", "content" }
ElementNames == { EmptyString, N_a }
AttributeNames == { EmptyString, N_id }

\* the form's change handlers; a session makes at most MaxEdits edits
SetSearchTerm(v) ==
    /\ edits < MaxEdits /\ v # searchTerm
    /\ searchTerm' = v /\ edits' = edits + 1
    /\ UNCHANGED << formatRuns, uploaderVars, indexVars, analyzerVars, treeVars, extractionType, specificElement,
                    specificAttribute, includeParents, keepStructure,
                    extractedXML, previewData, previewDialogOpen, toast,
                    lastCall, extraction >>

SetExtractionType(v) ==
    /\ edits < MaxEdits /\ v # extractionType
    /\ extractionType' = v /\ edits' = edits + 1
    /\ UNCHANGED << formatRuns, uploaderVars, indexVars, analyzerVars, treeVars, searchTerm, specificElement,
                    specificAttribute, includeParents, keepStructure,
                    extractedXML, previewData, previewDialogOpen, toast,
                    lastCall, extraction >>

SetSpecificElement(v) ==
    /\ edits < MaxEdits /\ v # specificElement
    /\ specificElement' = v /\ edits' = edits + 1
    /\ UNCHANGED << formatRuns, uploaderVars, indexVars, analyzerVars, treeVars, searchTerm, extractionType,
                    specificAttribute, includeParents, keepStructure,
                    extractedXML, previewData, previewDialogOpen, toast,
                    lastCall, extraction >>

SetSpecificAttribute(v) ==
    /\ edits < MaxEdits /\ v # specificAttribute
    /\ specificAttribute' = v /\ edits' = edits + 1
    /\ UNCHANGED << formatRuns, uploaderVars, indexVars, analyzerVars, treeVars, searchTerm, extractionType,
                    specificElement, includeParents, keepStructure,
                    extractedXML, previewData, previewDialogOpen, toast,
                    lastCall, extraction >>

SetIncludeParents(v) ==
    /\ edits < MaxEdits /\ v # includeParents
    /\ includeParents' = v /\ edits' = edits + 1
    /\ UNCHANGED << formatRuns, uploaderVars, indexVars, analyzerVars, treeVars, searchTerm, extractionType,
                    specificElement, specificAttribute, keepStructure,
                    extractedXML, previewData, previewDialogOpen, toast,
                    lastCall, extraction >>

SetKeepStructure(v) ==
    /\ edits < MaxEdits /\ v # keepStructure
    /\ keepStructure' = v /\ edits' = edits + 1
    /\ UNCHANGED << formatRuns, uploaderVars, indexVars, analyzerVars, treeVars, searchTerm, extractionType,
                    specificElement, specificAttribute, includeParents,
                    extractedXML, previewData, previewDialogOpen, toast,
                    lastCall, extraction >>

-----------------------------------------------------------------------------
(* The extractor's handlers on drawn inputs: a document, a filename and a  *)
(* filled-in form                                                          *)

ExtractorInputs == GeneratedDocs \cup { MalformedXML, BlankText, NoXML }

\* the form's type with the name fields that type reads
FormKinds ==
    ({ "element" } \X ElementNames \X { EmptyString })
    \cup ({ "attribute" } \X { EmptyString } \X AttributeNames)
    \cup { << "content", EmptyString, EmptyString >> }

ExtractorInit ==
    /\ xmlString \in ExtractorInputs
    /\ filename = F_one
    /\ appSearchTerm = EmptyString
    /\ selectedNode = EmptyString
    /\ searchTerm \in Terms \ { EmptyString }
    /\ \E k \in FormKinds :
          /\ extractionType = k[1]
          /\ specificElement = k[2]
          /\ specificAttribute = k[3]
    /\ includeParents \in BOOLEAN
    /\ keepStructure \in BOOLEAN
    /\ extractedXML = Null
    /\ previewData = Null
    /\ previewDialogOpen = FALSE
    /\ toast = "none"
    /\ edits = 0
    /\ lastCall = NoCall
    /\ extraction = NoExtraction
    /\ AnalyzerConstructed
    /\ TreeViewConstructed
    /\ UploaderConstructed
    /\ FormatterIdle

ExtractorNext ==
    \/ generatePreview
    \/ extractData
    \/ ClosePreviewDialog

SpecExtractor == ExtractorInit /\ [][ExtractorNext]_vars

-----------------------------------------------------------------------------
(* A session with the extractor: the form is edited and the handlers run   *)

SessionDocs ==
    { NoXML, MalformedXML,
      MakeDoc(ElementNode(N_r, << >>, 0), << ItemNested, ItemAttrs >>) }

SessionInit ==
    /\ xmlString \in SessionDocs
    /\ filename \in Filenames
    /\ appSearchTerm = EmptyString
    /\ selectedNode = EmptyString
    /\ ExtractorConstructed
    /\ AnalyzerConstructed
    /\ TreeViewConstructed
    /\ UploaderConstructed
    /\ FormatterIdle

SessionNext ==
    \/ generatePreview
    \/ extractData
    \/ ClosePreviewDialog
    \/ downloadExtractedXML
    \/ \E v \in Terms : SetSearchTerm(v)
    \/ \E v \in ExtractionTypes : SetExtractionType(v)
    \/ \E v \in ElementNames : SetSpecificElement(v)
    \/ \E v \in AttributeNames : SetSpecificAttribute(v)
    \/ \E v \in BOOLEAN : SetIncludeParents(v)
    \/ \E v \in BOOLEAN : SetKeepStructure(v)

SpecSession == SessionInit /\ [][SessionNext]_vars

-----------------------------------------------------------------------------
(* Claims about the extractor, stated over the document behind xmlString   *)

\* s holds t as a run of consecutive characters, letter case included
Contains(s, t) ==
    \E k \in 0..(Len(s) - Len(t)) : \A j \in 1..Len(t) : s[k + j] = t[j]

RECURSIVE Below(_, _, _)
\* node j of the document lies below node i
Below(doc, j, i) ==
    doc[j].parent # 0 /\ (doc[j].parent = i \/ Below(doc, doc[j].parent, i))

\* the character data below element i, in document order
DocText(doc, i) ==
    Flatten(ArrayOf([j \in 1..Len(doc) |->
                        IF Below(doc, j, i) /\ doc[j].kind \in { "text", "cdata" }
                        THEN doc[j].value ELSE EmptyString]))

\* the elements of the document, in document order
DocElements(doc) ==
    SelectSeq(ArrayOf([i \in 1..Len(doc) |-> i]), LAMBDA i : doc[i].kind = "element")

RECURSIVE DocPath(_, _)
\* the tag names from the root element down to node i
DocPath(doc, i) ==
    IF doc[i].parent = 0 THEN << doc[i].name >>
    ELSE Append(DocPath(doc, doc[i].parent), doc[i].name)

NoRepeats(seq) ==
    \A i \in 1..Len(seq), j \in 1..Len(seq) : i # j => seq[i] # seq[j]

\* the last extractData call that ran to its end left its result
ExtractDone == extraction.root # 0
\* the last generatePreview call that ran to its end left its preview
PreviewDone == previewData # Null

RECURSIVE Ancestors(_, _)
\* the ancestors of source node n, from the root element down to its parent
Ancestors(h, n) ==
    IF h[n].parent < 1 THEN << >>
    ELSE Append(Ancestors(h, h[n].parent), h[n].parent)

RECURSIVE SameTree(_, _, _)
\* nodes a and b are the tops of equal subtrees
SameTree(h, a, b) ==
    /\ h[a].kind = h[b].kind /\ h[a].name = h[b].name
    /\ h[a].attrs = h[b].attrs /\ h[a].value = h[b].value
    /\ Len(h[a].kids) = Len(h[b].kids)
    /\ \A k \in 1..Len(h[a].kids) : SameTree(h, h[a].kids[k], h[b].kids[k])

RECURSIVE IsChain(_, _, _, _)
\* c is the top of a chain of attributes-only copies of the elements of
\* chain, each nested in the one before, with a copy of n's subtree at its
\* bottom
IsChain(h, c, chain, n) ==
    IF chain = << >> THEN SameTree(h, c, n)
    ELSE /\ h[c].kind = "element"
         /\ h[c].name = h[Head(chain)].name
         /\ h[c].attrs = h[Head(chain)].attrs
         /\ Len(h[c].kids) = 1
         /\ IsChain(h, h[c].kids[1], Tail(chain), n)

\* C3: with includeParents and keepStructure both set, every retained
\* matched node appears in the result as a chain of fresh attributes-only
\* skeletons of its ancestors, from the document's root element down to its
\* parent, each nested in its own parent's skeleton, with the matched node's
\* full subtree at the bottom of the chain.
C3_AncestorChain ==
    (ExtractDone /\ includeParents /\ keepStructure) =>
        \A k \in 1..Len(extraction.retained) :
            \E c \in Range(extraction.dom[extraction.root].kids) :
                /\ c > Len(extraction.input)
                /\ IsChain(extraction.dom, c,
                           Ancestors(extraction.dom, extraction.retained[k]),
                           extraction.retained[k])

\* the matched nodes that are the first of their path, in match order
FirstOfEachPath(doc, selected) ==
    LET firsts == SelectSeq(ArrayOf([k \in 1..Len(selected) |-> k]),
                            LAMBDA k : \A j \in 1..(k - 1) :
                                DocPath(doc, selected[j]) # DocPath(doc, selected[k]))
    IN ArrayOf([m \in 1..Len(firsts) |-> selected[firsts[m]]])

\* C4: with includeParents and keepStructure both set, extractData keeps
\* the first matched node of every distinct root-to-node path of tag names
\* and drops every later match with that path, and extraction-results gets
\* at most as many children as the matched nodes have distinct paths.
C4_FirstOfEachPath ==
    (ExtractDone /\ includeParents /\ keepStructure) =>
        /\ extraction.retained =
              FirstOfEachPath(extraction.input, extraction.selected)
        /\ Len(extraction.dom[extraction.root].kids) <=
              Cardinality({ DocPath(extraction.input, n) :
                              n \in Range(extraction.selected) })

C4_Witness ==
    /\ ExtractDone /\ includeParents /\ keepStructure
    /\ Len(extraction.retained) >= 2
    /\ Len(extraction.retained) < Len(extraction.selected)

\* the selection of the 'element' basis
ElementNameSelection(doc) ==
    SelectSeq(DocElements(doc), LAMBDA i :
        /\ (specificElement = EmptyString \/ doc[i].name = specificElement)
        /\ \/ Contains(doc[i].name, searchTerm)
           \/ Contains(DocText(doc, i), searchTerm))

\* C5: on the 'element' basis extractData and generatePreview select
\* exactly the elements whose tag is specificElement (every element when it
\* is unset) and whose tag name or whole text content holds searchTerm as a
\* substring, letter case included.
C5_ElementNameBasis ==
    extractionType = "element" =>
        /\ ExtractDone => extraction.selected = ElementNameSelection(xmlString)
        /\ PreviewDone => extraction.previewed = ElementNameSelection(xmlString)

C5_Witness ==
    /\ extractionType = "element" /\ specificElement = N_a
    /\ ExtractDone /\ PreviewDone
    /\ extraction.selected # << >>
    /\ \E i \in 1..Len(xmlString) :
          /\ xmlString[i].name = N_a
          /\ i \notin Range(extraction.selected)

\* the selection of the 'attribute' basis
AttributeSelection(doc) ==
    SelectSeq(DocElements(doc), LAMBDA i :
        IF specificAttribute # EmptyString
        THEN \E k \in 1..Len(doc[i].attrs) :
                /\ doc[i].attrs[k].name = specificAttribute
                /\ Contains(doc[i].attrs[k].value, searchTerm)
        ELSE \E k \in 1..Len(doc[i].attrs) :
                \/ Contains(doc[i].attrs[k].name, searchTerm)
                \/ Contains(doc[i].attrs[k].value, searchTerm))

\* C6: on the 'attribute' basis the selection holds exactly the elements
\* that have the attribute specificAttribute with a value holding
\* searchTerm, or, when specificAttribute is unset, the elements with at
\* least one attribute whose name or value holds searchTerm; no element is
\* selected twice.
C6_AttributeBasis ==
    extractionType = "attribute" =>
        /\ ExtractDone => /\ extraction.selected = AttributeSelection(xmlString)
                          /\ NoRepeats(extraction.selected)
        /\ PreviewDone => /\ extraction.previewed = AttributeSelection(xmlString)
                          /\ NoRepeats(extraction.previewed)

C6_Witness ==
    /\ extractionType = "attribute" /\ specificAttribute = EmptyString
    /\ ExtractDone /\ PreviewDone
    /\ \E n \in Range(extraction.selected) :
          /\ Len(xmlString[n].attrs) >= 2
          /\ Contains(xmlString[n].attrs[1].name, searchTerm)
          /\ Contains(xmlString[n].attrs[2].value, searchTerm)
    /\ \E i \in 1..Len(xmlString) :
          /\ xmlString[i].attrs # << >>
          /\ i \notin Range(extraction.selected)

\* the selection of the 'content' basis
ContentSelection(doc) ==
    SelectSeq(DocElements(doc), LAMBDA i :
        /\ ~ \E j \in 1..Len(doc) : doc[j].parent = i /\ doc[j].kind = "element"
        /\ Contains(DocText(doc, i), searchTerm))

\* C7: on the 'content' basis the selection holds exactly the elements
\* without element children whose whole text content holds searchTerm; a
\* node that is not an element is never selected.
C7_ContentBasis ==
    extractionType = "content" =>
        /\ ExtractDone =>
              /\ extraction.selected = ContentSelection(xmlString)
              /\ \A n \in Range(extraction.selected) : xmlString[n].kind = "element"
        /\ PreviewDone =>
              /\ extraction.previewed = ContentSelection(xmlString)
              /\ \A n \in Range(extraction.previewed) : xmlString[n].kind = "element"

C7_Witness ==
    /\ extractionType = "content"
    /\ ExtractDone /\ PreviewDone
    /\ extraction.selected # << >>
    /\ \E i \in 1..Len(xmlString) :
          /\ xmlString[i].kind = "element"
          /\ Contains(DocText(xmlString, i), searchTerm)
          /\ i \notin Range(extraction.selected)

\* the names a table should tally, and how often each occurs
Occurrences(names, name) ==
    Cardinality({ k \in 1..Len(names) : names[k] = name })

\* the table holds, for every name of names, how often it occurs, and
\* nothing else
TalliesExactly(table, names) ==
    /\ \A k \in 1..Len(table) :
          /\ table[k].key \in Range(names)
          /\ table[k].value = Num(Occurrences(names, table[k].key))
    /\ \A name \in Range(names) : OwnIndex(table, name) # 0

\* C8: generatePreview uses the selection of extractData: matchCount is the
\* number of elements extractData selects before it removes any, the
\* samples are the first min(5, matchCount) of them in selection order, and
\* elementCounts and attributeCounts tally exactly the tag names and the
\* attribute names of the selected elements.
C8_PreviewSameSelection ==
    (ExtractDone /\ PreviewDone) =>
        LET selected == extraction.selected
            tags == ArrayOf([k \in 1..Len(selected) |-> xmlString[selected[k]].name])
            attributeNames ==
                Flatten(ArrayOf([k \in 1..Len(selected) |->
                    ArrayOf([j \in 1..Len(xmlString[selected[k]].attrs) |->
                                xmlString[selected[k]].attrs[j].name])]))
        IN /\ previewData[1].matchCount = Len(selected)
           /\ Len(previewData[1].samples) =
                 (IF Len(selected) < 5 THEN Len(selected) ELSE 5)
           /\ \A k \in 1..Len(previewData[1].samples) :
                 previewData[1].samples[k] = selected[k]
           /\ TalliesExactly(previewData[1].stats.elementCounts, tags)
           /\ TalliesExactly(previewData[1].stats.attributeCounts, attributeNames)

\* C9: a call of extractData or generatePreview with an empty searchTerm or
\* without a document fails for the missing input: it produces no result
\* and no preview, and leaves extractedXML, previewData and the state of the
\* preview dialog as they were.
C9_MissingInputRejected ==
    [][ ((generatePreview \/ extractData)
           /\ (xmlString = NoXML \/ searchTerm = EmptyString))
        => /\ lastCall'.outcome = "missing"
           /\ toast' \in { "Preview Failed", "Extraction Failed" }
           /\ extractedXML' = extractedXML
           /\ previewData' = previewData
           /\ previewDialogOpen' = previewDialogOpen
           /\ extraction' = extraction ]_vars

C9_Witness ==
    /\ lastCall.outcome = "missing"
    /\ extractedXML # Null
    /\ previewData # Null

\* C10: extractData and generatePreview never write to the source: the
\* parsed document is after the call what the parser made of xmlString, and
\* every node of the result document is a fresh node of the result document
\* whose parent and children are fresh nodes too.
C10_SourceUntouched ==
    ExtractDone =>
        LET h == extraction.dom
            n == Len(extraction.input)
        IN /\ extraction.input = xmlString
           /\ SubSeq(h, 1, n) = parseFromString(extraction.input)
           /\ \A id \in (n + 1)..Len(h) :
                 /\ h[id].parent \notin 1..n
                 /\ \A k \in 1..Len(h[id].kids) : h[id].kids[k] > n
                 /\ InDocument(h, id) => h[id].doc = "result"
           /\ \A id \in 1..n : h[id].doc = "xml"

C10_Witness ==
    /\ ExtractDone /\ PreviewDone
    /\ includeParents /\ keepStructure
    /\ Len(extraction.appended) >= 2
    /\ \E id \in Range(extraction.appended) : extraction.dom[id].kids # << >>

\* c is a copy of the subtree of source node n, or wraps one: a chain of
\* attributes-only copies of the nearest ancestors of n, each nested in the
\* one before, with the copy of n's subtree at the bottom
IsOrWraps(h, c, n) ==
    LET above == Ancestors(h, n)
    IN \E m \in 0..Len(above) :
          IsChain(h, c, SubSeq(above, Len(above) - m + 1, Len(above)), n)

\* the root of the result document is named extraction-results and carries
\* exactly source (the filename), extracted (the timestamp) and search-term
ResultRoot(h, root) ==
    /\ h[root].kind = "element"
    /\ h[root].name = N_results
    /\ h[root].parent = 0
    /\ \E now \in ClockReadings :
          h[root].attrs = << Attr(N_source, filename),
                             Attr(N_extracted, toISOString(now)),
                             Attr(N_searchterm, searchTerm) >>

\* C11: every successful extract leaves a result document whose root element
\* is named extraction-results and carries exactly the attributes source (the
\* filename the component was given), extracted (the timestamp of the
\* extraction) and search-term (the query term), and the root has one child
\* per matched node, in match order: the k-th child is a fresh copy of the
\* k-th matched node or a fresh wrapper of ancestor skeletons that holds that
\* copy.  The matched nodes are the selected ones, less the later ones of a
\* path with includeParents and keepStructure both set (the assembly follows
\* the removal of repeats).  With nothing selected the root has no children.
C11_ResultDocument ==
    ExtractDone =>
        LET h == extraction.dom
            root == extraction.root
            matched == IF includeParents /\ keepStructure
                       THEN FirstOfEachPath(extraction.input, extraction.selected)
                       ELSE extraction.selected
        IN /\ ResultRoot(h, root)
           /\ Len(h[root].kids) = Len(matched)
           /\ (extraction.selected = << >> => h[root].kids = << >>)
           /\ \A k \in 1..Len(matched) :
                 LET child == h[root].kids[k]
                 IN /\ child > Len(extraction.input)
                    /\ h[child].parent = root
                    /\ IsOrWraps(h, child, matched[k])

\* What holds of every successful extract: the root and its attributes, one
\* child per matched node in match order, and each child the copy of its
\* node or of the node in its parent unless includeParents and keepStructure
\* are both set and the node has a parent element.
ResultDocumentApart ==
    ExtractDone =>
        LET h == extraction.dom
            root == extraction.root
            matched == IF includeParents /\ keepStructure
                       THEN FirstOfEachPath(extraction.input, extraction.selected)
                       ELSE extraction.selected
        IN /\ ResultRoot(h, root)
           /\ Len(h[root].kids) = Len(matched)
           /\ \A k \in 1..Len(matched) :
                 (~(includeParents /\ keepStructure)
                    \/ ~ParentIsElement(h, matched[k]))
                 => IsOrWraps(h, h[root].kids[k], matched[k])

-----------------------------------------------------------------------------
(* XMLTreeView (part_001:31-398): the tree built from xmlString, and the  *)
(* paths that are expanded and matched                                     *)

UpperCaseLetters ==
    << "A", "B", "C", "D", "E", "F", "G", "H", "I", "J", "K", "L", "M",
       "N", "O", "P", "Q", "R", "S", "T", "U", "V", "W", "X", "Y", "Z" >>
LowerCaseLetters ==
    << "a", "b", "c", "d", "e", "f", "g", "h", "i", "j", "k", "l", "m",
       "n", "o", "p", "q", "r", "s", "t", "u", "v", "w", "x", "y", "z" >>

\* String.prototype.toLowerCase on the letters A to Z
toLowerCase(s) ==
    ArrayOf([i \in 1..Len(s) |->
        IF \E k \in 1..26 : UpperCaseLetters[k] = s[i]
        THEN LowerCaseLetters[CHOOSE k \in 1..26 : UpperCaseLetters[k] = s[i]]
        ELSE s[i]])

RECURSIVE trim(_)
\* String.prototype.trim: the white space at both ends is removed
trim(s) ==
    IF s = << >> THEN s
    ELSE IF Head(s) \in SpaceChars THEN trim(Tail(s))
    ELSE IF s[Len(s)] \in SpaceChars THEN trim(SubSeq(s, 1, Len(s) - 1))
    ELSE s

RECURSIVE join(_, _)
\* parts.join(sep)
join(parts, sep) ==
    IF parts = << >> THEN EmptyString
    ELSE IF Len(parts) = 1 THEN parts[1]
    ELSE parts[1] \o sep \o join(Tail(parts), sep)

RECURSIVE split(_, _)
\* s.split(sep) for a separator of one character
split(s, sep) ==
    IF \E i \in 1..Len(s) : s[i] = sep
    THEN LET i == CHOOSE k \in 1..Len(s) :
                     s[k] = sep /\ \A j \in 1..(k - 1) : s[j] # sep
         IN << SubSeq(s, 1, i - 1) >> \o split(SubSeq(s, i + 1, Len(s)), sep)
    ELSE << s >>

Slash == << "/" >>

\* `${newPath}/text()[${index}]` and its like for comments and CDATA
ChildPath(newPath, kind, index) ==
    newPath \o Slash \o
    (CASE kind = "text"    -> << "t", "e", "x", "t" >>
       [] kind = "comment" -> << "c", "o", "m", "m", "e", "n", "t" >>
       [] kind = "cdata"   -> << "c", "d", "a", "t", "a" >>)
    \o << "(", ")", "[" >> \o NumberToString(index) \o << "]" >>

\* the XMLNode objects; children is empty where the code leaves it undefined
XMLElement(name, attributes, children, path) ==
    [type |-> "element", name |-> name, value |-> EmptyString,
     attributes |-> attributes, children |-> children, path |-> path]
XMLLeaf(type, value, path) ==
    [type |-> type, name |-> EmptyString, value |-> value,
     attributes |-> EmptyObject, children |-> << >>, path |-> path]

\* the updates handed to setExpandedNodes
AddPath(path) == [op |-> "add", path |-> path]
SetPaths(paths) == [op |-> "set", paths |-> paths]

RECURSIVE applyUpdates(_, _)
\* the state of expandedNodes once the queued updates are applied in order
applyUpdates(prev, updates) ==
    IF updates = << >> THEN prev
    ELSE applyUpdates(IF Head(updates).op = "add"
                      THEN prev \cup { Head(updates).path }
                      ELSE Head(updates).paths,
                      Tail(updates))

RECURSIVE attributesOf(_, _)
\* Array.from(element.attributes).forEach(attr => attributes[attr.name] = attr.value)
attributesOf(attrs, attributes) ==
    IF attrs = << >> THEN attributes
    ELSE attributesOf(Tail(attrs), ObjSet(attributes, Head(attrs).name, Head(attrs).value))

\* a path that leaves out the names of the ancestors
elementPath_NameOnly(path, nodeName) == nodeName

\* path ? `${path}/${element.nodeName}` : element.nodeName
elementPath(path, nodeName) ==
    IF path # EmptyString THEN path \o Slash \o nodeName ELSE nodeName

RECURSIVE parseNode(_, _, _)
RECURSIVE parseChildren(_, _, _, _, _)
\* parseNode(node, path): the XMLNode made of DOM node id, and the updates
\* of expandedNodes queued on the way
parseNode(h, id, path) ==
    IF h[id].kind = "element"
    THEN LET newPath == elementPath(path, h[id].name)
             done == parseChildren(h, h[id].kids, 0, newPath,
                        [children |-> << >>, hasTextContent |-> FALSE,
                         updates |-> << >>])
         IN [node |-> XMLElement(h[id].name, attributesOf(h[id].attrs, EmptyObject),
                                 done.children, newPath),
             updates |-> IF done.hasTextContent /\ Len(done.children) = 1
                         THEN Append(done.updates, AddPath(newPath))
                         ELSE done.updates]
    ELSE IF h[id].kind = "text"
    THEN [node |-> XMLLeaf("text", trim(textContent(h, id)), path), updates |-> << >>]
    ELSE IF h[id].kind \in { "comment", "cdata" }
    THEN [node |-> XMLLeaf(h[id].kind, textContent(h, id), path), updates |-> << >>]
    ELSE [node |-> XMLLeaf("text", EmptyString, path), updates |-> << >>]

\* Array.from(element.childNodes).forEach((childNode, index) => ...)
parseChildren(h, kids, index, newPath, acc) ==
    IF kids = << >> THEN acc
    ELSE LET childNode == Head(kids)
             text == trim(textContent(h, childNode))
             next ==
               CASE h[childNode].kind = "text" ->
                      IF text # EmptyString
                      THEN [acc EXCEPT
                              !.hasTextContent = TRUE,
                              !.children = Append(@, XMLLeaf("text", text,
                                              ChildPath(newPath, "text", index)))]
                      ELSE acc
                 [] h[childNode].kind \in { "comment", "cdata" } ->
                      [acc EXCEPT
                         !.children = Append(@, XMLLeaf(h[childNode].kind,
                                         textContent(h, childNode),
                                         ChildPath(newPath, h[childNode].kind, index)))]
                 [] OTHER ->
                      LET child == parseNode(h, childNode, newPath)
                      IN [acc EXCEPT !.children = Append(@, child.node),
                                     !.updates = @ \o child.updates]
         IN IF Len(next.children) >= 0
            THEN parseChildren(h, Tail(kids), index + 1, newPath, next)
            ELSE next

\* parserError.textContent || "XML parsing error": the message of the Error
\* thrown for a document with a parsererror
ParserMessage(xmlDoc) ==
    LET found == CHOOSE i \in 1..Len(xmlDoc) :
                    /\ xmlDoc[i].kind = "parsererror"
                    /\ \A j \in 1..(i - 1) : xmlDoc[j].kind # "parsererror"
        text == textContent(xmlDoc, found)
    IN IF text # EmptyString THEN text
       ELSE << "X", "M", "L", " ", "p", "a", "r", "s", "i", "n", "g", " ",
               "e", "r", "r", "o", "r" >>

\* The parse effect of XMLTreeView on [xmlString, toast]
ParseEffect ==
    /\ treePending
    /\ treePending' = FALSE
    /\ IF xmlString = NoXML
       THEN /\ xmlTree' = Null
            /\ UNCHANGED << validationError, expandedNodes, toast >>
       ELSE LET xmlDoc == parseFromString(xmlString)
            IN IF parserError(xmlDoc)
               THEN /\ validationError' = Some(ParserMessage(xmlDoc))
                    /\ xmlTree' = Null
                    /\ toast' = "XML Validation Error"
                    /\ UNCHANGED expandedNodes
               ELSE LET tree == parseNode(xmlDoc, 1, EmptyString)
                    IN /\ xmlTree' = Some(tree.node)
                       /\ validationError' = Null
                       /\ expandedNodes' =
                            applyUpdates(expandedNodes,
                                Append(tree.updates, SetPaths({ xmlDoc[1].name })))
                       /\ UNCHANGED toast
    /\ searchPending' = (searchPending \/ xmlTree' # Null \/ xmlTree # Null)
    /\ UNCHANGED << formatRuns, uploaderVars, indexVars, analyzerVars, matchingNodes, searchLog,
                    searchTerm, extractionType, specificElement, specificAttribute,
                    includeParents, keepStructure, extractedXML, previewData,
                    previewDialogOpen, edits, lastCall, extraction >>

\* Object.entries(node.attributes).map(([k, v]) => `${k}="${v}"`).join(' ')
attributeText(node) ==
    join(ArrayOf([i \in 1..Len(node.attributes) |->
                    node.attributes[i].key \o << "=", "\"" >>
                    \o node.attributes[i].value \o << "\"" >>]),
         << " " >>)

\* nodeContains for one node: the name or value, or the attribute text,
\* holds the term, letter case set aside
nodeContains(node, term) ==
    LET nodeText == IF node.name # EmptyString THEN node.name ELSE node.value
    IN /\ term # EmptyString
       /\ \/ Includes(toLowerCase(nodeText), toLowerCase(term))
          \/ Includes(toLowerCase(attributeText(node)), toLowerCase(term))

\* prev => new Set([...prev, currentPath]): the updater reads the variable
\* currentPath when it is run.  atCall is what the variable holds when the
\* updater is handed to setExpandedNodes, atRun what it holds once the while
\* loop has ended
Updater(atCall, atRun) == [atCall |-> atCall, atRun |-> atRun]

RECURSIVE parentPaths(_)
\* the updaters that the while loop hands to setExpandedNodes, in its order.
\* `let currentPath` is declared once for the matched node, before the loop,
\* and the loop leaves in it the join of the first part alone
parentPaths(parts) ==
    IF Len(parts) > 1
    THEN LET popped == SubSeq(parts, 1, Len(parts) - 1)
             currentPath == join(popped, Slash)
         IN (IF currentPath # EmptyString
             THEN << Updater(currentPath, parts[1]) >> ELSE << >>)
            \o parentPaths(popped)
    ELSE << >>

\* what the queued updaters do when React runs them.  React runs an updater
\* when it renders next, after the effect has ended; the first updater
\* handed over while the component has no update pending may be run at
\* once instead (eager), and whether the component counts as having none
\* is left to the React build
runUpdaters(updaters, eager) ==
    ArrayOf([i \in 1..Len(updaters) |->
               AddPath(IF eager /\ i = 1 THEN updaters[i].atCall
                       ELSE updaters[i].atRun)])

RECURSIVE findMatchingNodes(_, _, _)
RECURSIVE findInChildren(_, _, _)
\* findMatchingNodes(node): newMatchingNodes and the updaters handed to
\* setExpandedNodes after the visit of node and of its descendants
findMatchingNodes(node, term, acc) ==
    LET here == IF nodeContains(node, term) /\ node.path # EmptyString
                THEN [matching |-> acc.matching \cup { node.path },
                      updates |-> acc.updates \o parentPaths(split(node.path, "/"))]
                ELSE acc
    IN findInChildren(node.children, term, here)

\* node.children.forEach(findMatchingNodes)
findInChildren(children, term, acc) ==
    IF children = << >> THEN acc
    ELSE LET visited == findMatchingNodes(Head(children), term, acc)
         IN IF Len(visited.updates) >= 0
            THEN findInChildren(Tail(children), term, visited)
            ELSE visited

\* The search effect of XMLTreeView on [searchTerm, xmlTree].  It runs after
\* the parse effect; when both are scheduled for one render the term is
\* empty or there was no tree, and it clears matchingNodes on either reading
\* of xmlTree.
SearchEffect ==
    /\ searchPending /\ ~treePending
    /\ searchPending' = FALSE
    /\ IF appSearchTerm = EmptyString \/ xmlTree = Null
       THEN /\ matchingNodes' = { }
            /\ UNCHANGED expandedNodes
       ELSE LET found == findMatchingNodes(xmlTree[1], appSearchTerm,
                             [matching |-> { }, updates |-> << >>])
            IN /\ matchingNodes' = found.matching
               /\ \E eager \in BOOLEAN :
                     expandedNodes' =
                        applyUpdates(expandedNodes, runUpdaters(found.updates, eager))
    /\ UNCHANGED << formatRuns, uploaderVars, indexVars, analyzerVars, extractorVars, xmlTree,
                    validationError, treePending, searchLog >>

\* toggleNode(path), from a click that is handled once the effects have run
toggleNode(path) ==
    /\ ~treePending /\ ~searchPending
    /\ expandedNodes' = IF path \in expandedNodes THEN expandedNodes \ { path }
                        ELSE expandedNodes \cup { path }
    /\ UNCHANGED << formatRuns, uploaderVars, indexVars, analyzerVars, extractorVars, xmlTree,
                    validationError, matchingNodes, treePending, searchPending,
                    searchLog >>

\* handleNodeClick(path) and the page's handleNodeSelect
handleNodeClick(path) ==
    /\ ~treePending /\ ~searchPending
    /\ selectedNode' = path
    /\ UNCHANGED << formatRuns, uploaderVars, xmlString, filename, appSearchTerm, analyzerVars,
                    extractorVars, treeVars >>

-----------------------------------------------------------------------------
(* The page's handleSearch (part_000:122-165)                              *)

\* a RegExp constructor that accepts every pattern
regExpThrows_Never(term, i, depth, canRepeat) == FALSE

RECURSIVE regExpThrows(_, _, _, _)
\* new RegExp(term) throws a SyntaxError.  The pattern is read from position
\* i on, depth groups are open, and canRepeat tells whether a quantifier may
\* follow.  Covers the patterns made of letters, digits, blanks and the
\* characters ( ) [ ] * + ? | \ ^ $ as the host reads them without the u
\* flag.
regExpThrows(term, i, depth, canRepeat) ==
    IF i > Len(term) THEN depth > 0
    ELSE CASE term[i] = "(" ->
                IF i < Len(term) /\ term[i + 1] = "?"
                THEN IF i + 1 < Len(term) /\ term[i + 2] \in { ":", "=", "!" }
                     THEN regExpThrows(term, i + 3, depth + 1, FALSE)
                     ELSE TRUE
                ELSE regExpThrows(term, i + 1, depth + 1, FALSE)
           [] term[i] = ")" ->
                depth = 0 \/ regExpThrows(term, i + 1, depth - 1, TRUE)
           [] term[i] = "[" ->
                \* inside the class a backslash takes the character after
                \* it, so a character is escaped when an odd number of
                \* backslashes of the class stands before it
                LET escaped(k) ==
                        \E n \in 1..(k - i - 1) :
                           /\ n % 2 = 1
                           /\ \A j \in (k - n)..(k - 1) : term[j] = "\\"
                           /\ term[k - n - 1] # "\\"
                    closers == { k \in (i + 1)..Len(term) :
                                   term[k] = "]" /\ ~escaped(k) }
                IN IF closers # { }
                   THEN regExpThrows(term,
                           1 + (CHOOSE k \in closers : \A j \in closers : k <= j),
                           depth, TRUE)
                   ELSE TRUE
           [] term[i] \in { "*", "+", "?" } ->
                \/ ~canRepeat
                \/ regExpThrows(term,
                       IF i < Len(term) /\ term[i + 1] = "?" THEN i + 2 ELSE i + 1,
                       depth, FALSE)
           [] term[i] = "\\" ->
                \* \b and \B are assertions: nothing to repeat after them
                \/ i = Len(term)
                \/ regExpThrows(term, i + 2, depth, term[i + 1] \notin { "b", "B" })
           [] term[i] \in { "^", "$" } -> regExpThrows(term, i + 1, depth, FALSE)
           [] term[i] = "|" -> regExpThrows(term, i + 1, depth, FALSE)
           [] OTHER -> regExpThrows(term, i + 1, depth, TRUE)

\* a term that is cut to its first letter when an option narrows the search
processedTerm_FirstLetter(term, options) ==
    IF options.wholeWord \/ options.caseSensitive THEN << term[1] >> ELSE term

\* let processedTerm = term; the blocks for caseSensitive and wholeWord are
\* empty
processedTerm(term, options) == term

\* handleSearch(term, options), called by XMLSearch with the text and the
\* options its form holds
handleSearch(term, options) ==
    /\ ~treePending /\ ~searchPending
    /\ IF trim(term) = EmptyString
       THEN /\ toast' = "Invalid search"
            /\ UNCHANGED << appSearchTerm, searchPending, searchLog >>
       ELSE IF options.useRegex /\ regExpThrows(term, 1, 0, FALSE)
       THEN /\ toast' = "Invalid regular expression"
            /\ UNCHANGED << appSearchTerm, searchPending, searchLog >>
       ELSE /\ appSearchTerm' = processedTerm(term, options)
            /\ toast' = "Search started"
            /\ searchPending' = (appSearchTerm' # appSearchTerm)
            /\ searchLog' =
                 [last |-> [made |-> TRUE, term |-> term, options |-> options,
                            matched |-> { }],
                  prev |-> [searchLog.last EXCEPT !.matched = matchingNodes]]
    /\ UNCHANGED << formatRuns, uploaderVars, xmlString, filename, selectedNode, analyzerVars,
                    xmlTree, validationError, expandedNodes, matchingNodes,
                    treePending,
                    searchTerm, extractionType, specificElement, specificAttribute,
                    includeParents, keepStructure, extractedXML, previewData,
                    previewDialogOpen, edits, lastCall, extraction >>

-----------------------------------------------------------------------------
(* Searching a loaded document *)

N_library  == << "l", "i", "b", "r", "a", "r", "y" >>
N_shelf    == << "s", "h", "e", "l", "f" >>
N_category == << "c", "a", "t", "e", "g", "o", "r", "y" >>
N_cat      == << "c", "a", "t" >>
N_BOOK     == << "B", "O", "O", "K" >>
Blank      == << " " >>
OpenParen  == << "(" >>

\* <library><book id="cat"><category>x</category></book><book/>
\*   <shelf><book>BOOK</book><!--cat--> </shelf></library>
Library ==
    << ElementNode(N_library, << >>, 0),
       ElementNode(N_book, << Attr(N_id, N_cat) >>, 1),
       ElementNode(N_category, << >>, 2),
       TextNode(N_x, 3),
       ElementNode(N_book, << >>, 1),
       ElementNode(N_shelf, << >>, 1),
       ElementNode(N_book, << >>, 6),
       TextNode(N_BOOK, 7),
       CommentNode(N_cat, 6),
       TextNode(Blank, 6) >>

\* <r><?b x?><a> </a></r>
Annotated ==
    << ElementNode(N_r, << >>, 0),
       ProcessingInstruction(N_b, N_x, 1),
       ElementNode(N_a, << >>, 1),
       TextNode(Blank, 3) >>

SearchDocs == { Library, Annotated, MalformedXML }

\* what the search form can hold
SearchTerms == { N_cat, N_BOOK, N_x, OpenParen, Blank, EmptyString }
SearchOptions ==
    { DefaultOptions,
      [DefaultOptions EXCEPT !.caseSensitive = TRUE],
      [DefaultOptions EXCEPT !.wholeWord = TRUE],
      [DefaultOptions EXCEPT !.useRegex = TRUE],
      [DefaultOptions EXCEPT !.searchIn = "elements"],
      [DefaultOptions EXCEPT !.searchIn = "attributes"],
      [DefaultOptions EXCEPT !.searchIn = "values"] }

EffectsDone == ~treePending /\ ~searchPending /\ ~analyzerPending

SearchInit ==
    /\ xmlString \in SearchDocs
    /\ filename = F_one
    /\ appSearchTerm = EmptyString
    /\ selectedNode = EmptyString
    /\ ExtractorConstructed
    /\ AnalyzerConstructed
    /\ TreeViewConstructed
    /\ UploaderConstructed
    /\ FormatterIdle

SearchNext ==
    \/ AnalyzerEffect
    \/ ParseEffect
    \/ SearchEffect
    \/ \E term \in SearchTerms, options \in SearchOptions :
          EffectsDone /\ handleSearch(term, options)
    \/ \E content \in SearchDocs : EffectsDone /\ LoadXML(content, F_one)

SpecSearch == SearchInit /\ [][SearchNext]_vars

-----------------------------------------------------------------------------
(* Browsing the tree: nodes are expanded, collapsed and selected *)

RECURSIVE renderNode(_)
RECURSIVE renderChildren(_)
\* renderNode(node): the nodes it renders, node first; the children of an
\* element are rendered while its path is in expandedNodes
renderNode(node) ==
    IF node.type = "element" /\ Len(node.children) > 0 /\ node.path \in expandedNodes
    THEN << node >> \o renderChildren(node.children)
    ELSE << node >>

renderChildren(children) ==
    IF children = << >> THEN << >>
    ELSE renderNode(Head(children)) \o renderChildren(Tail(children))

\* the nodes on display: the alert or the placeholder shows none
Rendered ==
    IF validationError = Null /\ xmlTree # Null THEN Range(renderNode(xmlTree[1]))
    ELSE { }

RECURSIVE rowsAround(_, _)
\* the rows that enclose the row of target in the tree rendered from node,
\* the outermost first and target's own last; none when target is not in
\* that tree.  The rows of the children are rendered inside the row of
\* their parent
rowsAround(node, target) ==
    IF node = target THEN << node >>
    ELSE LET around == { k \in 1..Len(node.children) :
                           rowsAround(node.children[k], target) # << >> }
         IN IF around = { } THEN << >>
            ELSE << node >> \o
                 rowsAround(node.children[CHOOSE k \in around :
                                             \A j \in around : k <= j], target)

\* a click on the row of a rendered node: onClick={() => node.path &&
\* handleNodeClick(node.path)} of the row and then, as no row stops the
\* event, of every row around it, the root's last.  The page keeps the
\* path of the last call
ClickRow(node) ==
    LET rows == rowsAround(xmlTree[1], node)
        calls == SelectSeq(rows, LAMBDA n : n.path # EmptyString)
    IN /\ calls # << >>
       /\ handleNodeClick(calls[1].path)

TreeDocs ==
    { Library, MalformedXML, BlankText,
      MakeDoc(ElementNode(N_r, << >>, 0), << ItemNested >>) }
TreeTerms == { N_cat, N_BOOK, N_x }

TreeViewInit ==
    /\ xmlString \in TreeDocs
    /\ filename = F_one
    /\ appSearchTerm = EmptyString
    /\ selectedNode = EmptyString
    /\ ExtractorConstructed
    /\ AnalyzerConstructed
    /\ TreeViewConstructed
    /\ UploaderConstructed
    /\ FormatterIdle

TreeViewNext ==
    \/ AnalyzerEffect
    \/ ParseEffect
    \/ SearchEffect
    \/ \E term \in TreeTerms : EffectsDone /\ handleSearch(term, DefaultOptions)
    \/ \E content \in TreeDocs : EffectsDone /\ LoadXML(content, F_one)
    \/ \E node \in Rendered :
          /\ EffectsDone /\ node.type = "element" /\ Len(node.children) > 0
          /\ node.path # EmptyString
          /\ toggleNode(node.path)
    \/ \E node \in Rendered : EffectsDone /\ ClickRow(node)

SpecTreeView == TreeViewInit /\ [][TreeViewNext]_vars

-----------------------------------------------------------------------------
(* Claims about the search *)

RECURSIVE NodesOf(_)
\* the nodes of a tree in pre-order
NodesOf(node) ==
    << node >> \o Flatten(ArrayOf([k \in 1..Len(node.children) |->
                                      NodesOf(node.children[k])]))

\* the nodes of the tree on display
TreeNodes == IF xmlTree = Null THEN { } ELSE Range(NodesOf(xmlTree[1]))

\* the texts of a node that a search in the given part of the document tests
TestedTexts(node, searchIn) ==
    (IF searchIn \in { "all", "elements" } /\ node.type = "element"
     THEN { node.name } ELSE { })
    \cup
    (IF searchIn \in { "all", "attributes" }
     THEN { node.attributes[k].key : k \in 1..Len(node.attributes) }
          \cup { node.attributes[k].value : k \in 1..Len(node.attributes) }
     ELSE { })
    \cup
    (IF searchIn \in { "all", "values" } /\ node.type # "element"
     THEN { node.value } ELSE { })

\* text holds term between two word boundaries
HoldsWord(text, term) ==
    \E i \in 1..(Len(text) - Len(term) + 1) :
        /\ SubSeq(text, i, i + Len(term) - 1) = term
        /\ (i = 1 \/ text[i - 1] \notin WordChars)
        /\ (i + Len(term) > Len(text) \/ text[i + Len(term)] \notin WordChars)

\* a search has run to its end on the tree on display
SearchDone == EffectsDone /\ searchLog.last.made /\ xmlTree # Null

\* C12: after a search with wholeWord enabled every matched path belongs to
\* a node that holds the term between word boundaries in its name, in an
\* attribute name or value, or in its value; "cat" inside "category" does
\* not count.
C12_WholeWord ==
    (SearchDone /\ searchLog.last.options.wholeWord) =>
        \A path \in matchingNodes :
            \E node \in TreeNodes :
                /\ node.path = path
                /\ \E text \in TestedTexts(node, "all") :
                      HoldsWord(toLowerCase(text), toLowerCase(searchLog.last.term))

\* C13: after a search with caseSensitive set every matched path belongs to
\* a node one of whose tested texts holds the term in the term's own letter
\* case; "BOOK" does not match an element named "book".
C13_CaseSensitive ==
    (SearchDone /\ searchLog.last.options.caseSensitive) =>
        \A path \in matchingNodes :
            \E node \in TreeNodes :
                /\ node.path = path
                /\ \E text \in TestedTexts(node, "all") :
                      Includes(text, searchLog.last.term)

\* C14: after a plain search (no regular expression, no whole word, letter
\* case folded) the matched paths are those of the nodes that hold the term
\* in the part the searchIn option names: the element name, the attribute
\* names and values, the node's own value, or any of them.
C14_SearchIn ==
    (SearchDone /\ \E part \in { "all", "elements", "attributes", "values" } :
                      searchLog.last.options = [DefaultOptions EXCEPT !.searchIn = part]) =>
        matchingNodes =
            { node.path : node \in
                { n \in TreeNodes :
                    \E text \in TestedTexts(n, searchLog.last.options.searchIn) :
                        Includes(toLowerCase(text), toLowerCase(searchLog.last.term)) } }

\* the same for searchIn = "all"
C14_SearchInAll ==
    searchLog.last.options.searchIn = "all" => C14_SearchIn

\* C15: a handleSearch call with useRegex on and the term "(", which is no
\* regular expression, reports "Invalid regular expression" and leaves the
\* page's searchTerm, matchingNodes, expandedNodes and xmlTree as they
\* were, with no effect scheduled that would change them.
C15_InvalidPatternRejected ==
    [][\A options \in SearchOptions :
          (options.useRegex /\ handleSearch(OpenParen, options)) =>
              /\ toast' = "Invalid regular expression"
              /\ UNCHANGED << appSearchTerm, matchingNodes, expandedNodes, xmlTree,
                              validationError, treePending, searchPending >>]_vars

\* an invalid pattern was rejected while a search with matches was active
C15_Witness ==
    /\ toast = "Invalid regular expression"
    /\ EffectsDone
    /\ appSearchTerm = N_cat
    /\ matchingNodes # { }
    /\ xmlTree # Null

\* the letters of s are all of one case
OneCase(s) ==
    \/ \A i \in 1..Len(s) : s[i] \notin Range(UpperCaseLetters)
    \/ \A i \in 1..Len(s) : s[i] \notin Range(LowerCaseLetters)

\* the last two searches are for the same term, and the options of the one
\* called on are those of the one called off with the named option enabled
SameSearchBut(option, on, off) ==
    /\ on.made /\ off.made
    /\ on.term = off.term
    /\ ~off.options[option] /\ on.options[option]
    /\ on.options = [off.options EXCEPT ![option] = TRUE]

\* C16: of two searches for the same term on the same tree that differ in
\* wholeWord only, the one with wholeWord enabled matches a subset of what
\* the other matches; the same holds for caseSensitive when the term is not
\* of mixed case.  (matchingNodes is the match set of the later search,
\* searchLog.prev.matched that of the earlier one.)
C16_Monotone ==
    SearchDone =>
        LET last == searchLog.last
            prev == searchLog.prev
        IN /\ SameSearchBut("wholeWord", last, prev) => matchingNodes \subseteq prev.matched
           /\ SameSearchBut("wholeWord", prev, last) => prev.matched \subseteq matchingNodes
           /\ OneCase(last.term) =>
                /\ SameSearchBut("caseSensitive", last, prev) =>
                      matchingNodes \subseteq prev.matched
                /\ SameSearchBut("caseSensitive", prev, last) =>
                      prev.matched \subseteq matchingNodes

\* a search with matches was repeated with wholeWord enabled
C16_Witness ==
    /\ SearchDone
    /\ SameSearchBut("wholeWord", searchLog.last, searchLog.prev)
    /\ searchLog.last.term = N_BOOK
    /\ searchLog.prev.matched # { }
    /\ matchingNodes # { }

\* what a search for term leaves when it is the first on a tree view that
\* was just constructed for the document: the parse effect, then the
\* search effect
FreshSearch(doc, term, eager) ==
    LET tree == parseNode(parseFromString(doc), 1, EmptyString)
        built == applyUpdates({ }, Append(tree.updates, SetPaths({ doc[1].name })))
        found == findMatchingNodes(tree.node, term,
                                   [matching |-> { }, updates |-> << >>])
    IN [matchingNodes |-> found.matching,
        expandedNodes |-> applyUpdates(built, runUpdaters(found.updates, eager))]

\* the part of C17 about the matched paths
C17_MatchedPathsOnly ==
    (SearchDone /\ searchLog.prev.made) =>
        matchingNodes = FreshSearch(xmlString, searchLog.last.term, FALSE).matchingNodes

-----------------------------------------------------------------------------
(* Claims about the tree *)

\* the nodes of a document that the tree represents, in document order: all
\* but the texts of white space
KeptNodes(doc) ==
    SelectSeq(ArrayOf([i \in 1..Len(doc) |-> i]),
              LAMBDA i : doc[i].kind = "text" =>
                            \E k \in 1..Len(doc[i].value) :
                                doc[i].value[k] \notin SpaceChars)

\* tree has a node for every kept node of doc and no other, in document
\* order, each with the kind, the name and the children count of its node
IsCompleteTreeOf(tree, doc) ==
    LET nodes == NodesOf(tree)
        kept == KeptNodes(doc)
    IN /\ Len(nodes) = Len(kept)
       /\ \A k \in 1..Len(kept) :
             /\ nodes[k].type = doc[kept[k]].kind
             /\ nodes[k].name = doc[kept[k]].name
             /\ Len(nodes[k].attributes) = Len(doc[kept[k]].attrs)
             /\ Len(nodes[k].children) =
                   Cardinality({ j \in Range(kept) : doc[j].parent = kept[k] })

\* an xmlString that is not empty and is no document: an open tag is not
\* closed, or there is no root element
Malformed(s) == s # NoXML /\ ~WellFormed(s)

\* C18: while the view holds a tree it holds no validation error, and the
\* tree is the complete tree of a well-formed document: of xmlString once
\* the parse effect has run, of the document loaded before until then.  Once
\* the parse effect has run on a malformed xmlString (<a><b></a>, or white
\* space alone) the view holds the parser's error, which for <a><b></a> is
\* the mismatch of b and a, and no tree.
C18_BuildAtomic ==
    /\ xmlTree # Null =>
          /\ validationError = Null
          /\ \E doc \in { d \in TreeDocs : ~Malformed(d) } :
                /\ IsCompleteTreeOf(xmlTree[1], doc)
                /\ ~treePending => doc = xmlString
    /\ (~treePending /\ Malformed(xmlString)) =>
          /\ xmlTree = Null
          /\ validationError # Null
          /\ xmlString = MalformedXML => validationError = Some(ParserErrorText)

\* a malformed document was loaded over a well-formed one
C18_Witness ==
    /\ EffectsDone
    /\ xmlString = MalformedXML
    /\ analyzed = Library
    /\ xmlTree = Null
    /\ validationError # Null
    /\ toast = "XML Validation Error"

\* a text of white space alone was loaded over a well-formed document
C18_WitnessNoRoot ==
    /\ EffectsDone
    /\ xmlString = BlankText
    /\ analyzed = Library
    /\ xmlTree = Null
    /\ validationError # Null
    /\ toast = "XML Validation Error"

\* what renderNode reads of a node: isExpanded, isSelected, matchesSearch
isExpanded(node) == node.path # EmptyString /\ node.path \in expandedNodes
isSelected(node) == node.path = selectedNode
matchesSearch(node) == node.path # EmptyString /\ node.path \in matchingNodes

\* C19: the path of every element of the tree is the chain of the tag names
\* from the root element down to it, joined by '/', with no position among
\* its siblings; two elements with the same chain of names carry the same
\* path, and are expanded, selected and marked as a match together.
C19_PathByNames ==
    (xmlTree # Null /\ ~treePending) =>
        LET doc == xmlString
            els == DocElements(doc)
            nodes == SelectSeq(NodesOf(xmlTree[1]), LAMBDA n : n.type = "element")
        IN /\ Len(nodes) = Len(els)
           /\ \A k \in 1..Len(els) :
                 nodes[k].path = join(DocPath(doc, els[k]), Slash)
           /\ \A j, k \in 1..Len(els) :
                 DocPath(doc, els[j]) = DocPath(doc, els[k]) =>
                    /\ nodes[j].path = nodes[k].path
                    /\ isExpanded(nodes[j]) = isExpanded(nodes[k])
                    /\ isSelected(nodes[j]) = isSelected(nodes[k])
                    /\ matchesSearch(nodes[j]) = matchesSearch(nodes[k])

\* the two <book> children of <library> are expanded and marked as a match
\* together, though only the first of them holds the term and has children
\* to show; a click on either row ends with the root selected, so neither
\* is selected
C19_Witness ==
    /\ EffectsDone
    /\ xmlString = Library
    /\ xmlTree # Null
    /\ appSearchTerm = N_cat
    /\ LET first == xmlTree[1].children[1]
           second == xmlTree[1].children[2]
       IN /\ first.name = N_book /\ second.name = N_book
          /\ nodeContains(first, appSearchTerm) /\ ~nodeContains(second, appSearchTerm)
          /\ matchesSearch(first) /\ matchesSearch(second)
          /\ isSelected(xmlTree[1]) /\ ~isSelected(first) /\ ~isSelected(second)
          /\ isExpanded(first) /\ isExpanded(second)

-----------------------------------------------------------------------------
(* XMLUploader (XMLUploader.tsx:17-90): a file is chosen, checked and read *)

MAX_FILE_SIZE == 20 * 1024 * 1024
WARNING_FILE_SIZE == 10 * 1024 * 1024

DotXml == << ".", "x", "m", "l" >>

\* a test that every name passes
endsWith_Always(s, suffix) == TRUE

\* String.prototype.endsWith
endsWith(s, suffix) ==
    /\ Len(s) >= Len(suffix)
    /\ SubSeq(s, Len(s) - Len(suffix) + 1, Len(s)) = suffix

\* processFile(file), up to reader.readAsText(file)
processFile(file) ==
    /\ uploaderFilename' = file.name
    /\ isLoading' = TRUE
    /\ readers' = Append(readers, file)

NewRead(file, confirmed) ==
    [file |-> file, confirmed |-> confirmed, outcome |-> "reading", calls |-> << >>]

\* handleFileUpload on the change event of the file input, which is
\* disabled while isLoading and covered while the warning is open
handleFileUpload(file) ==
    /\ ~isLoading /\ ~showWarning
    /\ IF file = NoFile
       THEN UNCHANGED << formatRuns, uploaderVars, toast >>
       ELSE IF ~endsWith(toLowerCase(file.name), DotXml)
       THEN /\ toast' = "Invalid file type"
            /\ UNCHANGED uploaderVars
       ELSE IF file.size > MAX_FILE_SIZE
       THEN /\ toast' = "File too large"
            /\ UNCHANGED uploaderVars
       ELSE IF file.size > WARNING_FILE_SIZE
       THEN /\ largeFile' = Some(file)
            /\ showWarning' = TRUE
            /\ UNCHANGED << xmlContent, uploaderFilename, isLoading, readers,
                            lastRead, toast >>
       ELSE /\ processFile(file)
            /\ lastRead' = NewRead(file, FALSE)
            /\ UNCHANGED << xmlContent, showWarning, largeFile, toast >>
    /\ UNCHANGED << indexVars, analyzerVars, treeVars, extractorFormVars,
                    formatRuns >>

\* handleConfirmLargeFile, the "Continue Anyway" button of the warning
handleConfirmLargeFile ==
    /\ showWarning
    /\ IF largeFile # Null
       THEN /\ processFile(largeFile[1])
            /\ lastRead' = NewRead(largeFile[1], TRUE)
       ELSE UNCHANGED << uploaderFilename, isLoading, readers, lastRead >>
    /\ showWarning' = FALSE
    /\ UNCHANGED << xmlContent, largeFile, indexVars, analyzerVars, treeVars,
                    extractorVars, formatRuns >>

\* setShowWarning(false): the "Cancel" button, or the dialog is dismissed
CancelLargeFile ==
    /\ showWarning
    /\ showWarning' = FALSE
    /\ UNCHANGED << xmlContent, uploaderFilename, isLoading, largeFile, readers,
                    lastRead, indexVars, analyzerVars, treeVars, extractorVars,
                    formatRuns >>

RemoveAt(seq, i) == SubSeq(seq, 1, i - 1) \o SubSeq(seq, i + 1, Len(seq))

\* what the read of readers[i] adds to the record of the last processFile
\* call when it ends
Settled(i, outcome, calls) ==
    IF lastRead.file = readers[i] /\ lastRead.outcome = "reading"
    THEN [lastRead EXCEPT !.outcome = outcome, !.calls = @ \o calls]
    ELSE lastRead

\* reader.onload of the i-th pending read
ReaderLoaded(i) ==
    /\ i \in 1..Len(readers)
    /\ LET file == readers[i]
           content == file.content
       IN /\ xmlContent' = content
          /\ handleXMLLoaded(content, file.name)
          /\ isLoading' = FALSE
          /\ lastRead' = Settled(i, "load",
                                 << [content |-> content, name |-> file.name] >>)
    /\ readers' = RemoveAt(readers, i)
    /\ UNCHANGED << uploaderFilename, showWarning, largeFile, formatRuns, toast >>

\* an onerror that leaves isLoading as it is
ReaderFailed_StillLoading(i) ==
    /\ i \in 1..Len(readers)
    /\ toast' = "Error reading file"
    /\ lastRead' = Settled(i, "error", << >>)
    /\ readers' = RemoveAt(readers, i)
    /\ UNCHANGED << isLoading, xmlContent, uploaderFilename, showWarning,
                    largeFile, indexVars, analyzerVars, treeVars,
                    extractorFormVars, formatRuns >>

\* reader.onerror of the i-th pending read
ReaderFailed(i) ==
    /\ i \in 1..Len(readers)
    /\ toast' = "Error reading file"
    /\ isLoading' = FALSE
    /\ lastRead' = Settled(i, "error", << >>)
    /\ readers' = RemoveAt(readers, i)
    /\ UNCHANGED << xmlContent, uploaderFilename, showWarning, largeFile,
                    indexVars, analyzerVars, treeVars, extractorFormVars,
                    formatRuns >>

\* the names and the file names of the sample and of a pasted text
N_year  == << "y", "e", "a", "r" >>
N_price == << "p", "r", "i", "c", "e" >>
N_lang  == << "l", "a", "n", "g" >>
N_en    == << "e", "n" >>
F_sample == << "s", "a", "m", "p", "l", "e", "-", "b", "o", "o", "k", "s",
            "t", "o", "r", "e", ".", "x", "m", "l" >>
F_pasted == << "p", "a", "s", "t", "e", "d", "-", "c", "o", "n", "t", "e",
            "n", "t", ".", "x", "m", "l" >>

\* the white space between the tags of the sample
Indent(n) == << "\n" >> \o ArrayOf([i \in 1..n |-> " "])

\* <book category=...> with its four children, as laid out in the sample
SampleBook(category, title, author, year, price) ==
    << ElementNode(N_book, << Attr(N_category, category) >>, 0),
       TextNode(Indent(4), 1),
       ElementNode(N_title, << Attr(N_lang, N_en) >>, 1), TextNode(title, 3),
       TextNode(Indent(4), 1),
       ElementNode(N_author, << >>, 1), TextNode(author, 6),
       TextNode(Indent(4), 1),
       ElementNode(N_year, << >>, 1), TextNode(year, 9),
       TextNode(Indent(4), 1),
       ElementNode(N_price, << >>, 1), TextNode(price, 12),
       TextNode(Indent(2), 1) >>

\* sampleXML: the bookstore of four books that loadSampleXML holds
SampleXML ==
    MakeDoc(ElementNode(N_bookstore, << >>, 0),
            << << TextNode(Indent(2), 0) >>,
               SampleBook(<< "f", "i", "c", "t", "i", "o", "n" >>,
                  << "H", "a", "r", "r", "y", " ", "P", "o", "t", "t",
                     "e", "r", " ", "a", "n", "d", " ", "t", "h", "e",
                     " ", "P", "h", "i", "l", "o", "s", "o", "p", "h",
                     "e", "r", "'", "s", " ", "S", "t", "o", "n", "e" >>,
                  << "J", ".", "K", ".", " ", "R", "o", "w", "l", "i",
                     "n", "g" >>,
                  << "1", "9", "9", "7" >>, << "2", "4", ".", "9", "9" >>),
               << TextNode(Indent(2), 0) >>,
               SampleBook(<< "f", "i", "c", "t", "i", "o", "n" >>,
                  << "T", "h", "e", " ", "L", "o", "r", "d", " ", "o",
                     "f", " ", "t", "h", "e", " ", "R", "i", "n", "g",
                     "s" >>,
                  << "J", ".", "R", ".", "R", ".", " ", "T", "o", "l",
                     "k", "i", "e", "n" >>,
                  << "1", "9", "5", "4" >>, << "2", "9", ".", "9", "9" >>),
               << TextNode(Indent(2), 0) >>,
               SampleBook(<< "t", "e", "c", "h", "n", "i", "c", "a", "l" >>,
                  << "X", "M", "L", " ", "P", "r", "o", "c", "e", "s",
                     "s", "i", "n", "g", " ", "w", "i", "t", "h", " ",
                     "P", "y", "t", "h", "o", "n" >>,
                  << "J", "o", "h", "n", " ", "S", "m", "i", "t", "h" >>,
                  << "2", "0", "1", "8" >>, << "4", "9", ".", "9", "5" >>),
               << TextNode(Indent(2), 0) >>,
               SampleBook(<< "t", "e", "c", "h", "n", "i", "c", "a", "l" >>,
                  << "L", "e", "a", "r", "n", "i", "n", "g", " ", "X",
                     "M", "L" >>,
                  << "E", "r", "i", "k", " ", "T", ".", " ", "R", "a",
                     "y" >>,
                  << "2", "0", "0", "3" >>, << "3", "9", ".", "9", "5" >>),
               << TextNode(Indent(0), 0) >> >>)

\* xmlContent.trim(): nothing is left of a text that holds white space alone
trimmedIsEmpty(content) ==
    \A i \in 1..Len(content) :
       /\ content[i].kind = "text" /\ content[i].parent = 0
       /\ trim(content[i].value) = EmptyString

\* onChange of the textarea: setXmlContent(e.target.value)
TextareaChange(text) ==
    /\ ~showWarning
    /\ xmlContent' = text
    /\ UNCHANGED << uploaderFilename, isLoading, showWarning, largeFile, readers,
                    lastRead, indexVars, analyzerVars, treeVars, extractorVars,
                    formatRuns >>

\* handlePasteContent, the "Process XML Content" button
handlePasteContent ==
    /\ ~showWarning
    /\ IF trimmedIsEmpty(xmlContent)
       THEN /\ toast' = "No content"
            /\ UNCHANGED << indexVars, analyzerVars, treeVars, extractorFormVars >>
       ELSE /\ handleXMLLoaded(xmlContent,
                               IF uploaderFilename # EmptyString
                               THEN uploaderFilename ELSE F_pasted)
            /\ toast' = "XML content loaded"
    /\ UNCHANGED << uploaderVars, formatRuns >>

\* loadSampleXML, the "Load Sample" button
loadSampleXML ==
    /\ ~showWarning
    /\ xmlContent' = SampleXML
    /\ uploaderFilename' = F_sample
    /\ handleXMLLoaded(SampleXML, F_sample)
    /\ toast' = "Sample XML loaded"
    /\ UNCHANGED << isLoading, showWarning, largeFile, readers, lastRead,
                    formatRuns >>

-----------------------------------------------------------------------------
(* Uploading files: files are chosen, confirmed or cancelled, and read; texts
   are typed and processed, and the sample is loaded *)

F_upper == << "F", ".", "X", "M", "L" >>
F_text  == << "f", ".", "t", "x", "t" >>
F_short == << "x", "m", "l" >>

File(name, size, content) == [name |-> name, size |-> size, content |-> content]

\* the files the user can choose
Files ==
    { File(F_one, 1024, Library),
      File(F_upper, WARNING_FILE_SIZE, Annotated),
      File(F_two, WARNING_FILE_SIZE + 1, MalformedXML),
      File(F_two, 1024, BlankText),
      File(F_one, MAX_FILE_SIZE, Annotated),
      File(F_two, MAX_FILE_SIZE + 1, Library),
      File(F_text, 1024, Library),
      File(F_short, 1024, Library),
      NoFile }

\* the texts the user can type or paste in the textarea
PastedTexts == { NoXML, BlankText, Library, MalformedXML }

UploaderInit ==
    /\ xmlString = NoXML
    /\ filename = EmptyString
    /\ appSearchTerm = EmptyString
    /\ selectedNode = EmptyString
    /\ ExtractorConstructed
    /\ AnalyzerConstructed
    /\ TreeViewConstructed
    /\ UploaderConstructed
    /\ FormatterIdle

\* a FileReader that was started settles
ReaderSettles == \E i \in 1..Len(readers) : ReaderLoaded(i) \/ ReaderFailed(i)

UploaderNext ==
    \/ AnalyzerEffect
    \/ ParseEffect
    \/ SearchEffect
    \/ \E file \in Files : EffectsDone /\ handleFileUpload(file)
    \/ EffectsDone /\ handleConfirmLargeFile
    \/ EffectsDone /\ CancelLargeFile
    \/ \E i \in 1..Len(readers) : EffectsDone /\ ReaderLoaded(i)
    \/ \E i \in 1..Len(readers) : EffectsDone /\ ReaderFailed(i)
    \/ \E text \in PastedTexts : EffectsDone /\ TextareaChange(text)
    \/ EffectsDone /\ handlePasteContent
    \/ EffectsDone /\ loadSampleXML

SpecUploader == UploaderInit /\ [][UploaderNext]_vars

\* React runs the effects of every render, so the effects are done again and
\* again (weak fairness of the three effects, which are enabled exactly
\* while one of them is pending).  A read that was started ends in a load
\* or in an error: readAsText is never aborted, and its event is handled
\* at a time when the effects of the last render have run, however often
\* the user loads the sample or a pasted text in between
SpecUploaderFair ==
    /\ SpecUploader
    /\ []<>EffectsDone
    /\ SF_vars(EffectsDone /\ ReaderSettles)

-----------------------------------------------------------------------------
(* Claims about the uploader *)

\* the last four characters of a name are ".xml", in that letter case or in
\* any
HasXmlExtension(name, anyCase) ==
    LET n == Len(name)
    IN /\ n >= 4
       /\ name[n - 3] = "."
       /\ name[n - 2] \in (IF anyCase THEN { "x", "X" } ELSE { "x" })
       /\ name[n - 1] \in (IF anyCase THEN { "m", "M" } ELSE { "m" })
       /\ name[n] \in (IF anyCase THEN { "l", "L" } ELSE { "l" })

\* the rules a read obeys: the file is no larger than 20 MB, its name ends
\* in .xml, and a file larger than 10 MB was confirmed by the user
ObeysRules(read, anyCase) ==
    /\ read.file.size <= 20 * 1024 * 1024
    /\ HasXmlExtension(read.file.name, anyCase)
    /\ read.file.size > 10 * 1024 * 1024 => read.confirmed

\* a step that hands a document to the page
Delivers == \E i \in 1..Len(readers) : ReaderLoaded(i)

\* C24 as stated: a file is read and handed to onXMLLoaded only if it is no
\* larger than 20 MB and its name ends in .xml, and if it is larger than
\* 10 MB only after the user confirmed the warning for it; cancelling the
\* warning starts no read and delivers nothing.
C24_AsStated ==
    /\ [](lastRead.outcome \in { "reading", "load" } => ObeysRules(lastRead, FALSE))
    /\ [][CancelLargeFile => (~Delivers /\ UNCHANGED << readers, lastRead >>)]_vars

\* C24, amended: the name is tested after it is put in lower case, so the
\* names that end in .xml in any letter case are delivered.  The page gets
\* a document from a read that obeys the rules, or else from the textarea
\* or the sample, which hand over no file and start no read.
C24_UploadRules ==
    /\ [](/\ lastRead.outcome \in { "reading", "load" } => ObeysRules(lastRead, TRUE)
          /\ \A i \in 1..Len(readers) : readers[i] = lastRead.file)
    /\ [][CancelLargeFile => (~Delivers /\ UNCHANGED << readers, lastRead >>)]_vars
    /\ [][(Delivers \/ << xmlString, filename >>' # << xmlString, filename >>) =>
             \/ /\ lastRead.outcome = "reading"
                /\ lastRead'.outcome = "load"
                /\ xmlString' = lastRead'.file.content
                /\ filename' = lastRead'.file.name
             \/ /\ handlePasteContent \/ loadSampleXML
                /\ UNCHANGED << readers, lastRead >>]_vars

\* a file of 20 MB was delivered after its warning was confirmed, and the
\* warning is open again for another file
C24_Witness ==
    /\ lastRead.outcome = "load"
    /\ lastRead.file.size = MAX_FILE_SIZE
    /\ lastRead.confirmed
    /\ xmlString = lastRead.file.content
    /\ showWarning
    /\ largeFile # Null /\ largeFile[1] # lastRead.file

\* C30: a processFile call that started a read ends: the read settles in a
\* load or in an error and isLoading is false from then on until the next
\* call.  A read that loaded made one onXMLLoaded call, with the content and
\* the name of its file, which the page then holds; a read that failed made
\* none and left the page as it was.
C30_ProcessFileEnds ==
    /\ (lastRead.outcome = "reading") ~>
          (lastRead.outcome \in { "load", "error" } /\ ~isLoading)
    /\ [](lastRead.outcome \in { "none", "load", "error" } => ~isLoading)
    /\ [](lastRead.outcome = "load" =>
             lastRead.calls = << [content |-> lastRead.file.content,
                                  name |-> lastRead.file.name] >>)
    /\ [](lastRead.outcome = "error" => lastRead.calls = << >>)
    /\ [][\A i \in 1..Len(readers) :
             /\ ReaderLoaded(i) => /\ xmlString' = readers[i].content
                                   /\ filename' = readers[i].name
             /\ ReaderFailed(i) => UNCHANGED indexVars]_vars

\* the read of a second file failed after the first was delivered: the page
\* still holds the first, and the uploader is no longer loading
C30_Witness ==
    /\ lastRead.outcome = "error"
    /\ lastRead.calls = << >>
    /\ ~isLoading
    /\ toast = "Error reading file"
    /\ xmlString = Library /\ filename = F_one
    /\ lastRead.file.content # xmlString
    /\ uploaderFilename = lastRead.file.name

-----------------------------------------------------------------------------
(* formatXML on its own: a text is formatted, and the result formatted again *)

MaxText == 3
MaxRuns == 2

FormatterAlphabet == { "<", ">", "/", "a", " ", "\n" }

\* the texts '<' ... '>' with up to MaxText characters of the alphabet
\* between the two
FormatterTexts ==
    { << "<" >> \o ArrayOf(mid) \o << ">" >> :
        mid \in UNION { [1..n -> FormatterAlphabet] : n \in 0..MaxText } }

\* <library>x<shelf><book/></shelf><!--b--></library>: a text and a comment
\* beside an element
Mixed ==
    << ElementNode(N_library, << >>, 0),
       TextNode(N_x, 1),
       ElementNode(N_shelf, << >>, 1),
       ElementNode(N_book, << >>, 3),
       CommentNode(N_b, 1) >>

FormatterDocs == GeneratedDocs \cup { Library, Annotated, Mixed }

\* the flat serialization of a document
Serialized(doc) == serializeToString(parseFromString(doc), 1)

FormatterInputs == { Serialized(doc) : doc \in FormatterDocs } \cup FormatterTexts

FormatterInit ==
    /\ xmlString = NoXML
    /\ filename = EmptyString
    /\ appSearchTerm = EmptyString
    /\ selectedNode = EmptyString
    /\ ExtractorConstructed
    /\ AnalyzerConstructed
    /\ TreeViewConstructed
    /\ UploaderConstructed
    /\ formatRuns \in { [xml |-> x, results |-> << >>] : x \in FormatterInputs }

\* formatXML is applied to the text, or to its last result
Format ==
    /\ Len(formatRuns.results) < MaxRuns
    /\ LET xml == IF formatRuns.results = << >> THEN formatRuns.xml
                  ELSE formatRuns.results[Len(formatRuns.results)]
       IN formatRuns' = [formatRuns EXCEPT !.results = Append(@, formatXML(xml))]
    /\ UNCHANGED << indexVars, extractorVars, analyzerVars, treeVars,
                    uploaderVars >>

FormatterNext == Format

SpecFormatter == FormatterInit /\ [][FormatterNext]_vars

-----------------------------------------------------------------------------
(* Claims about formatXML *)

\* the text nodes of a document that hold more than white space
TextsKept(doc) ==
    { i \in 1..Len(doc) :
        /\ doc[i].kind = "text"
        /\ \E k \in 1..Len(doc[i].value) : doc[i].value[k] \notin SpaceChars }

\* the positions of the '<' that begin a tag in a text without '<' in its
\* character data
TagStarts(text) == { p \in 1..(Len(text) - 1) : text[p] = "<" }

\* the tag at p is a closing tag; it is an opening tag that is not closed
\* in itself
ClosesAt(text, p) == text[p + 1] = "/"
OpensAt(text, p) ==
    /\ text[p + 1] \notin { "/", "!", "?" }
    /\ LET end == CHOOSE e \in (p + 1)..Len(text) :
                     /\ text[e] = ">"
                     /\ \A k \in (p + 1)..(e - 1) : text[k] # ">"
       IN text[end - 1] # "/"

\* the number of elements that are open around the tag at p
DepthAt(text, p) ==
    Cardinality({ q \in TagStarts(text) : q < p /\ OpensAt(text, q) })
    - Cardinality({ q \in TagStarts(text) : q <= p /\ ClosesAt(text, q) })

\* the position where the line of p begins
LineStart(text, p) ==
    LET breaks == { k \in 1..(p - 1) : text[k] = "\n" }
    IN IF breaks = { } THEN 1
       ELSE 1 + CHOOSE k \in breaks : \A j \in breaks : j <= k

\* every opening or closing tag that is the first on its line stands behind
\* 2 spaces for each level of depth of its element
DepthIndented(text) ==
    \A p \in TagStarts(text) :
        LET start == LineStart(text, p)
        IN (/\ ClosesAt(text, p) \/ text[p + 1] \notin { "!", "?" }
            /\ \A k \in start..(p - 1) : text[k] = " ") =>
               p - start = 2 * DepthAt(text, p)

\* no text of the document that holds more than white space has a sibling
Unmixed(doc) ==
    \A i \in TextsKept(doc) :
        \A j \in 1..Len(doc) : doc[j].parent = doc[i].parent => j = i

\* C25: in the formatted serialization of a document every line that
\* begins with an opening or a closing tag is indented by 2 spaces for each
\* level of depth of the tag's element.
C25_DepthIndent ==
    \A doc \in FormatterDocs :
        (formatRuns.xml = Serialized(doc) /\ formatRuns.results # << >>) =>
            DepthIndented(formatRuns.results[1])

\* every element with children has attributes or a name of two characters
\* or more
LongTags(doc) ==
    \A i \in 1..Len(doc) :
        (doc[i].kind = "element" /\ \E j \in 1..Len(doc) : doc[j].parent = i) =>
            (doc[i].attrs # << >> \/ Len(doc[i].name) >= 2)

\* the part of C25 that holds: the documents in which no text stands beside
\* another node and no opening tag is a single character
C25_DepthIndentUnmixed ==
    \A doc \in FormatterDocs :
        (/\ Unmixed(doc) /\ LongTags(doc)
         /\ formatRuns.xml = Serialized(doc)
         /\ formatRuns.results # << >>) =>
            DepthIndented(formatRuns.results[1])

\* a text that begins with '<' and ends with '>'
IsTagged(x) == Len(x) >= 2 /\ x[1] = "<" /\ x[Len(x)] = ">"

\* C29: formatXML applied to a text that begins with '<' and ends with '>'
\* gives a text that begins with '<' and ends with '>', and formatXML
\* applied to that result gives the result again.
C29_Idempotent ==
    IsTagged(formatRuns.xml) =>
        /\ \A k \in 1..Len(formatRuns.results) : IsTagged(formatRuns.results[k])
        /\ \A k \in 2..Len(formatRuns.results) :
              formatRuns.results[k] = formatRuns.results[1]

\* a text of several fragments was formatted twice; the first run changed it
\* and indented a line, the second changed nothing
C29_Witness ==
    /\ IsTagged(formatRuns.xml)
    /\ Len(formatRuns.results) >= 2
    /\ formatRuns.results[1] # formatRuns.xml
    /\ formatRuns.results[2] = formatRuns.results[1]
    /\ Len(SplitAtBoundaries(formatRuns.xml, 1)) >= 3
    /\ \E k \in 1..(Len(formatRuns.results[1]) - 2) :
          SubSeq(formatRuns.results[1], k, k + 2) = << "\n", " ", " " >>

\* the elements of a tree whose only child is one text node
SoleTextElements(tree) ==
    { n \in Range(NodesOf(tree)) :
        /\ n.type = "element"
        /\ Len(n.children) = 1
        /\ n.children[1].type = "text" }

\* C21: when the parse effect has built the tree of a well-formed document,
\* the expanded paths it leaves hold the path of the root and the path of
\* every element whose only child is one text node.
C21_InitiallyExpanded ==
    [][(ParseEffect /\ xmlTree' # Null) =>
          /\ xmlTree'[1].path \in expandedNodes'
          /\ \A n \in SoleTextElements(xmlTree'[1]) : n.path \in expandedNodes'
      ]_vars

\* the part of C21 about the root: the parse effect leaves the root's path,
\* and nothing else, expanded
C21_RootOnly ==
    [][(ParseEffect /\ xmlTree' # Null) =>
          expandedNodes' = { xmlTree'[1].path }]_vars

\* the strictly shorter prefixes of a path that end before a '/'
StrictPrefixes(path) ==
    { SubSeq(path, 1, i - 1) : i \in { k \in 2..Len(path) : path[k] = "/" } }

\* C22: a search leaves the path of every node of the tree that holds the
\* term in matchingNodes, whatever else matched above or beside it; it
\* leaves every strictly shorter prefix of every matched path expanded, and
\* it adds nothing else to the expanded paths and removes none.
C22_AncestorsExpanded ==
    [][(SearchEffect /\ appSearchTerm # EmptyString /\ xmlTree # Null) =>
          LET matched == { n \in TreeNodes : nodeContains(n, appSearchTerm) }
              prefixes == UNION { StrictPrefixes(n.path) : n \in matched }
          IN /\ matchingNodes' = { n.path : n \in matched }
             /\ prefixes \subseteq expandedNodes'
             /\ (expandedNodes' \ expandedNodes) \subseteq prefixes
             /\ expandedNodes \subseteq expandedNodes'
      ]_vars

\* the parts of C22 about the matched paths and about what a search may
\* add: every node that holds the term is matched, and the search adds
\* strict prefixes of matched paths only and removes nothing
C22_EveryNodeTested ==
    [][(SearchEffect /\ appSearchTerm # EmptyString /\ xmlTree # Null) =>
          LET matched == { n \in TreeNodes : nodeContains(n, appSearchTerm) }
              prefixes == UNION { StrictPrefixes(n.path) : n \in matched }
          IN /\ matchingNodes' = { n.path : n \in matched }
             /\ (expandedNodes' \ expandedNodes) \subseteq prefixes
             /\ expandedNodes \subseteq expandedNodes'
      ]_vars

\* what a search does add: the root's path, and at most one path more
C22_RootAndOneMore ==
    [][(SearchEffect /\ appSearchTerm # EmptyString /\ xmlTree # Null) =>
          Cardinality((expandedNodes' \ expandedNodes) \ { xmlTree[1].path }) <= 1
      ]_vars

\* C23: no Text node of the tree has an empty value.
C23_NoEmptyText ==
    xmlTree # Null =>
        \A n \in TreeNodes : n.type = "text" => n.value # EmptyString

\* the part of C23 about the texts of the document: the Text nodes of the
\* tree that hold a value are as many as the texts of the document that hold
\* more than white space, their values are trimmed, and the Text nodes
\* without a value are as many as the processing instructions
C23_WhitespaceDropped ==
    (xmlTree # Null /\ ~treePending) =>
        LET texts == SelectSeq(NodesOf(xmlTree[1]), LAMBDA n : n.type = "text")
            valued == SelectSeq(texts, LAMBDA n : n.value # EmptyString)
        IN /\ Len(valued) = Cardinality(TextsKept(xmlString))
           /\ \A k \in 1..Len(valued) : trim(valued[k].value) = valued[k].value
           /\ Len(texts) - Len(valued) =
                 Cardinality({ i \in 1..Len(xmlString) : xmlString[i].kind = "pi" })

\* C26: a load leaves the page's search term and selected path empty,
\* whatever they were; and once the effects that follow it have run, the
\* search term is empty and no path is matched until handleSearch sets a
\* term again.
C26_LoadResets ==
    /\ [][(\E content \in TreeDocs : LoadXML(content, F_one)) =>
             (appSearchTerm' = EmptyString /\ selectedNode' = EmptyString)]_vars
    /\ []((EffectsDone /\ ~searchLog.last.made) =>
             (appSearchTerm = EmptyString /\ matchingNodes = { }))

\* the document was loaded after a search had been started: nothing is
\* matched or selected in the tree on display, and the paths that the search
\* had expanded are still expanded
C26_Witness ==
    /\ EffectsDone
    /\ toast = "Search started"
    /\ ~searchLog.last.made
    /\ xmlString = Library
    /\ xmlTree # Null
    /\ appSearchTerm = EmptyString /\ selectedNode = EmptyString
    /\ matchingNodes = { }
    /\ xmlTree[1].children[3].path \in expandedNodes

-----------------------------------------------------------------------------
(* Claims about the analyzer after a document that does not parse *)

\* the six statistics of the analyzer
Statistics ==
    << elementStats, attributeStats, depthStats, maxDepth, totalElements,
       totalAttributes >>

\* C27: neither the load of a document that does not parse (an open tag
\* that is not closed, or no root element) over a document that was
\* analysed, nor the effect that runs on it, changes any of the six
\* statistics; while the analyzer is given such a document they are those
\* of the document analysed before it.
C27_FailureKeepsStats ==
    /\ [][(AnalyzerEffect /\ Malformed(xmlString)) =>
             UNCHANGED Statistics]_vars
    /\ [][((\E name \in Filenames, doc \in ReloadInputs :
                Malformed(doc) /\ LoadXML(doc, name))
           /\ xmlString # NoXML) => UNCHANGED Statistics]_vars
    /\ []((Malformed(xmlString) /\ analyzed # NoXML) =>
             /\ totalElements = Cardinality(ElementsOf(analyzed))
             /\ totalAttributes =
                   Sum(ArrayOf([i \in 1..Len(analyzed) |-> Len(analyzed[i].attrs)]))
             /\ \A i \in 1..Len(analyzed) : Depth(analyzed, i) <= maxDepth
             /\ \E i \in 1..Len(analyzed) : Depth(analyzed, i) = maxDepth
             /\ Len(elementStats) > 0 /\ Len(depthStats) > 0)

\* the effect has run on a document that does not parse, loaded over the
\* bookstore with texts: the 31 elements and the depth of 3 are still shown
C27_Witness ==
    /\ ~analyzerPending
    /\ xmlString = MalformedXML
    /\ analyzed = Bookstore(TRUE)
    /\ totalElements = 31
    /\ maxDepth = 3
    /\ Len(elementStats) = 4

\* the same after a text of white space alone
C27_WitnessNoRoot ==
    /\ ~analyzerPending
    /\ xmlString = BlankText
    /\ analyzed = Bookstore(TRUE)
    /\ totalElements = 31
    /\ maxDepth = 3
    /\ Len(elementStats) = 4

-----------------------------------------------------------------------------
(* Claims about the selection by element name and the elements above it *)

\* C28: on the 'element' basis with specificElement unset, every ancestor
\* element of a selected element whose text content holds searchTerm is
\* selected as well; and with includeParents off the result holds a full
\* copy of that element and of each of its ancestors, each a child of the
\* result's root, so the element's content is in the result once for
\* itself and once more for every ancestor.
C28_ClosedUpward ==
    (ExtractDone /\ extractionType = "element" /\ specificElement = EmptyString) =>
        LET h == extraction.dom
            doc == extraction.input
            selected == extraction.selected
        IN \A k \in 1..Len(selected) :
              Contains(DocText(doc, selected[k]), searchTerm) =>
                 /\ Range(Ancestors(h, selected[k])) \subseteq Range(selected)
                 /\ ~includeParents =>
                       \A j \in 1..Len(selected) :
                          (selected[j] = selected[k]
                           \/ selected[j] \in Range(Ancestors(h, selected[k]))) =>
                             /\ h[extraction.root].kids[j] > Len(doc)
                             /\ SameTree(h, h[extraction.root].kids[j], selected[j])

\* an element below the root holds the term in its text (spread over its
\* descendants) and not in its name, no element above it holds the term in
\* its name, all of them are selected with it, and the result has a child
\* for the element and one for each element above it
C28_Witness ==
    /\ ExtractDone /\ extractionType = "element" /\ specificElement = EmptyString
    /\ ~includeParents
    /\ \E k \in 1..Len(extraction.selected) :
          LET e == extraction.selected[k]
              above == Ancestors(extraction.dom, e)
          IN /\ Len(above) >= 1
             /\ ~Contains(extraction.input[e].name, searchTerm)
             /\ Contains(DocText(extraction.input, e), searchTerm)
             /\ \A a \in Range(above) : ~Contains(extraction.input[a].name, searchTerm)
             /\ Range(above) \subseteq Range(extraction.selected)
             /\ Len(extraction.dom[extraction.root].kids) >= 1 + Len(above)
             /\ \E j \in 1..Len(extraction.selected) :
                   /\ extraction.selected[j] \in Range(above)
                   /\ SameTree(extraction.dom,
                               extraction.dom[extraction.root].kids[j],
                               extraction.selected[j])

=============================================================================
